---- MODULE Spec2Model ----
(***************************************************************************)
(* Phase scheduling of OPCOPILOT (opcopilot_streamlit_complete_app.py):    *)
(* the SQLite store (tables operations and phases), the creation form,     *)
(* the phase management tabs and the aggregates derived from the phases.   *)
(* Every user interaction is one Streamlit run: load_operations, the       *)
(* handler of the widget that fired, save_operation.                       *)
(***************************************************************************)
EXTENDS Integers, Sequences, FiniteSets, TLC

VARIABLES
    db_operations,   \* rows of table operations, in rowid order
    db_phases,       \* rows of table phases (all operations), in rowid order
    next_uuid,       \* stands for uuid.uuid4(): the next fresh identifier
    runs,            \* number of submitted forms and pressed buttons so far
    last,            \* the last handler that ran, its inputs and the store before it
    sessions         \* the script run in progress in each browser session

vars == <<db_operations, db_phases, next_uuid, runs, last, sessions>>

(***************************************************************************)
(* Bounds of the exploration.                                              *)
(***************************************************************************)
FirstDay == 739252         \* earliest date offered to date_input: 2025-01-01 as a proleptic ordinal
MaxValeur == 1             \* largest value typed in a duration number_input
MaxNbPhases == 2           \* largest "Nombre de phases" of the creation form
MaxPhases == 3             \* phase lists longer than this are not edited further
MaxRuns == 3               \* submitted forms and pressed buttons in one exploration
MaxSaisie == 30            \* largest value handed to convert_to_days on its own
MaxJours == 210            \* largest number of days handed to format_duration on its own
MaxLoads == 2              \* script runs started by the two sessions together
MaxAvancement == 100       \* largest progress handed to generer_phases_demo, in per cent

(***************************************************************************)
(* datetime: a date is its proleptic Gregorian ordinal (all datetimes of   *)
(* the program are midnights, built by datetime.combine(d, min.time())).   *)
(* timedelta(days = k) is the integer k.  isoformat() yields the text      *)
(* YYYY-MM-DDT00:00:00, modelled by the triple <<YYYY, MM, DD>>; text      *)
(* comparison of two such strings is the lexicographic order of triples.   *)
(***************************************************************************)
isoformat(n) ==
    LET z   == n + 305
        era == z \div 146097
        doe == z - era * 146097
        yoe == (doe - (doe \div 1460) + (doe \div 36524) - (doe \div 146096)) \div 365
        doy == doe - (365 * yoe + (yoe \div 4) - (yoe \div 100))
        mp  == (5 * doy + 2) \div 153
        d   == doy - ((153 * mp + 2) \div 5) + 1
        m   == IF mp < 10 THEN mp + 3 ELSE mp - 9
        y   == yoe + era * 400 + (IF m <= 2 THEN 1 ELSE 0)
    IN  <<y, m, d>>

fromisoformat(t) ==
    LET y0  == t[1] - (IF t[2] <= 2 THEN 1 ELSE 0)
        era == y0 \div 400
        yoe == y0 - era * 400
        mp  == IF t[2] > 2 THEN t[2] - 3 ELSE t[2] + 9
        doy == ((153 * mp + 2) \div 5) + t[3] - 1
        doe == yoe * 365 + (yoe \div 4) - (yoe \div 100) + doy
    IN  era * 146097 + doe - 305

\* a < b for two isoformat texts (SQLite compares TEXT columns bytewise)
TextLess(a, b) ==
    \/ a[1] < b[1]
    \/ a[1] = b[1] /\ a[2] < b[2]
    \/ a[1] = b[1] /\ a[2] = b[2] /\ a[3] < b[3]

(***************************************************************************)
(* TEMPLATES_PHASES: the five templates (accents transliterated).          *)
(***************************************************************************)
TEMPLATE_OPP ==
    <<
       [nom |-> "Etude d'Opportunite", duree_jours |-> 15, couleur |-> "#2ca02c"],
       [nom |-> "Etude de Faisabilite", duree_jours |-> 30, couleur |-> "#2ca02c"],
       [nom |-> "Programmation", duree_jours |-> 20, couleur |-> "#2ca02c"],
       [nom |-> "Montage Financier", duree_jours |-> 45, couleur |-> "#1f77b4"],
       [nom |-> "Acquisition Fonciere", duree_jours |-> 60, couleur |-> "#1f77b4"],
       [nom |-> "Etudes Geotechniques", duree_jours |-> 30, couleur |-> "#1f77b4"],
       [nom |-> "Depot Permis de Construire", duree_jours |-> 15, couleur |-> "#ff7f0e"],
       [nom |-> "Instruction PC", duree_jours |-> 90, couleur |-> "#ff7f0e"],
       [nom |-> "Obtention PC", duree_jours |-> 15, couleur |-> "#ff7f0e"],
       [nom |-> "Purge Recours PC", duree_jours |-> 60, couleur |-> "#ff7f0e"],
       [nom |-> "Mission MOE - ESQ", duree_jours |-> 30, couleur |-> "#9467bd"],
       [nom |-> "Mission MOE - AVP", duree_jours |-> 45, couleur |-> "#9467bd"],
       [nom |-> "Mission MOE - PRO", duree_jours |-> 60, couleur |-> "#9467bd"],
       [nom |-> "Mission MOE - ACT", duree_jours |-> 30, couleur |-> "#9467bd"],
       [nom |-> "Preparation DCE", duree_jours |-> 30, couleur |-> "#d62728"],
       [nom |-> "Consultation Entreprises", duree_jours |-> 45, couleur |-> "#d62728"],
       [nom |-> "Analyse Offres", duree_jours |-> 15, couleur |-> "#d62728"],
       [nom |-> "Attribution Marches", duree_jours |-> 30, couleur |-> "#d62728"],
       [nom |-> "Signature Marches", duree_jours |-> 15, couleur |-> "#d62728"],
       [nom |-> "Preparation Chantier", duree_jours |-> 30, couleur |-> "#8c564b"],
       [nom |-> "Installation Chantier", duree_jours |-> 15, couleur |-> "#8c564b"],
       [nom |-> "Reunion Lancement", duree_jours |-> 5, couleur |-> "#8c564b"],
       [nom |-> "Travaux VRD", duree_jours |-> 60, couleur |-> "#e377c2"],
       [nom |-> "Travaux Terrassement", duree_jours |-> 30, couleur |-> "#e377c2"],
       [nom |-> "Travaux Fondations", duree_jours |-> 45, couleur |-> "#e377c2"],
       [nom |-> "Travaux Gros OEuvre", duree_jours |-> 120, couleur |-> "#e377c2"],
       [nom |-> "Travaux Etancheite", duree_jours |-> 30, couleur |-> "#e377c2"],
       [nom |-> "Travaux Charpente", duree_jours |-> 45, couleur |-> "#e377c2"],
       [nom |-> "Travaux Couverture", duree_jours |-> 30, couleur |-> "#e377c2"],
       [nom |-> "Travaux Cloisons", duree_jours |-> 45, couleur |-> "#e377c2"],
       [nom |-> "Travaux Electricite", duree_jours |-> 60, couleur |-> "#e377c2"],
       [nom |-> "Travaux Plomberie", duree_jours |-> 60, couleur |-> "#e377c2"],
       [nom |-> "Travaux Climatisation", duree_jours |-> 45, couleur |-> "#e377c2"],
       [nom |-> "Travaux Revetements", duree_jours |-> 60, couleur |-> "#e377c2"],
       [nom |-> "Travaux Peinture", duree_jours |-> 45, couleur |-> "#e377c2"],
       [nom |-> "Travaux Menuiseries", duree_jours |-> 30, couleur |-> "#e377c2"],
       [nom |-> "Raccordement EDF", duree_jours |-> 45, couleur |-> "#7f7f7f"],
       [nom |-> "Raccordement Eau", duree_jours |-> 30, couleur |-> "#7f7f7f"],
       [nom |-> "Raccordement Fibre", duree_jours |-> 20, couleur |-> "#7f7f7f"],
       [nom |-> "Raccordement Assainissement", duree_jours |-> 30, couleur |-> "#7f7f7f"],
       [nom |-> "Nettoyage Final", duree_jours |-> 10, couleur |-> "#bcbd22"],
       [nom |-> "Pre-reception", duree_jours |-> 15, couleur |-> "#bcbd22"],
       [nom |-> "Levee Reserves", duree_jours |-> 30, couleur |-> "#bcbd22"],
       [nom |-> "Reception Definitive", duree_jours |-> 15, couleur |-> "#bcbd22"],
       [nom |-> "Preparation Livraison", duree_jours |-> 15, couleur |-> "#17becf"],
       [nom |-> "Livraison Logements", duree_jours |-> 30, couleur |-> "#17becf"],
       [nom |-> "DGD", duree_jours |-> 30, couleur |-> "#17becf"],
       [nom |-> "Bilan Operation", duree_jours |-> 15, couleur |-> "#17becf"]
    >>

TEMPLATE_VEFA ==
    <<
       [nom |-> "Recherche Promoteurs", duree_jours |-> 30, couleur |-> "#2ca02c"],
       [nom |-> "Analyse Projets", duree_jours |-> 45, couleur |-> "#2ca02c"],
       [nom |-> "Selection Promoteur", duree_jours |-> 30, couleur |-> "#2ca02c"],
       [nom |-> "Due Diligence", duree_jours |-> 20, couleur |-> "#1f77b4"],
       [nom |-> "Negociation Contrat", duree_jours |-> 30, couleur |-> "#1f77b4"],
       [nom |-> "Validation Interne", duree_jours |-> 15, couleur |-> "#1f77b4"],
       [nom |-> "Signature VEFA", duree_jours |-> 15, couleur |-> "#ff7f0e"],
       [nom |-> "Appel Fonds 1", duree_jours |-> 5, couleur |-> "#ff7f0e"],
       [nom |-> "Suivi Travaux Gros OEuvre", duree_jours |-> 180, couleur |-> "#d62728"],
       [nom |-> "Appel Fonds 2", duree_jours |-> 5, couleur |-> "#d62728"],
       [nom |-> "Suivi Second OEuvre", duree_jours |-> 120, couleur |-> "#d62728"],
       [nom |-> "Appel Fonds 3", duree_jours |-> 5, couleur |-> "#d62728"],
       [nom |-> "Suivi Finitions", duree_jours |-> 60, couleur |-> "#d62728"],
       [nom |-> "Pre-reception", duree_jours |-> 15, couleur |-> "#9467bd"],
       [nom |-> "Reserves", duree_jours |-> 30, couleur |-> "#9467bd"],
       [nom |-> "Reception Definitive", duree_jours |-> 15, couleur |-> "#9467bd"],
       [nom |-> "Appel Fonds Final", duree_jours |-> 5, couleur |-> "#8c564b"],
       [nom |-> "Livraison", duree_jours |-> 30, couleur |-> "#8c564b"],
       [nom |-> "DGD VEFA", duree_jours |-> 30, couleur |-> "#17becf"]
    >>

TEMPLATE_MANDATS_ETUDES ==
    <<
       [nom |-> "Definition Mission", duree_jours |-> 15, couleur |-> "#2ca02c"],
       [nom |-> "Cahier des Charges", duree_jours |-> 20, couleur |-> "#2ca02c"],
       [nom |-> "Preparation Consultation", duree_jours |-> 15, couleur |-> "#1f77b4"],
       [nom |-> "Consultation MOE", duree_jours |-> 45, couleur |-> "#1f77b4"],
       [nom |-> "Analyse Candidatures", duree_jours |-> 15, couleur |-> "#1f77b4"],
       [nom |-> "Attribution MOE", duree_jours |-> 20, couleur |-> "#ff7f0e"],
       [nom |-> "Signature Marche", duree_jours |-> 10, couleur |-> "#ff7f0e"],
       [nom |-> "Lancement Mission", duree_jours |-> 5, couleur |-> "#ff7f0e"],
       [nom |-> "Etudes Diagnostic", duree_jours |-> 30, couleur |-> "#d62728"],
       [nom |-> "Etudes Faisabilite", duree_jours |-> 45, couleur |-> "#d62728"],
       [nom |-> "Etudes AVP", duree_jours |-> 60, couleur |-> "#d62728"],
       [nom |-> "Validation AVP", duree_jours |-> 15, couleur |-> "#9467bd"],
       [nom |-> "Etudes PRO", duree_jours |-> 90, couleur |-> "#9467bd"],
       [nom |-> "Validation PRO", duree_jours |-> 20, couleur |-> "#9467bd"],
       [nom |-> "Livraison Etudes", duree_jours |-> 15, couleur |-> "#8c564b"],
       [nom |-> "Reception Mission", duree_jours |-> 10, couleur |-> "#8c564b"]
    >>

TEMPLATE_MANDATS_REALISATION ==
    <<
       [nom |-> "Reprise Etudes", duree_jours |-> 30, couleur |-> "#2ca02c"],
       [nom |-> "Mise a Jour Plans", duree_jours |-> 20, couleur |-> "#2ca02c"],
       [nom |-> "Preparation DCE", duree_jours |-> 30, couleur |-> "#1f77b4"],
       [nom |-> "Consultation Entreprises", duree_jours |-> 60, couleur |-> "#1f77b4"],
       [nom |-> "Analyse Offres", duree_jours |-> 20, couleur |-> "#1f77b4"],
       [nom |-> "Attribution Marches", duree_jours |-> 30, couleur |-> "#ff7f0e"],
       [nom |-> "Signature Marches", duree_jours |-> 15, couleur |-> "#ff7f0e"],
       [nom |-> "Preparation Chantier", duree_jours |-> 20, couleur |-> "#ff7f0e"],
       [nom |-> "Installation Chantier", duree_jours |-> 10, couleur |-> "#ff7f0e"],
       [nom |-> "Travaux Preparatoires", duree_jours |-> 30, couleur |-> "#d62728"],
       [nom |-> "Travaux Gros OEuvre", duree_jours |-> 120, couleur |-> "#d62728"],
       [nom |-> "Travaux Second OEuvre", duree_jours |-> 90, couleur |-> "#d62728"],
       [nom |-> "Travaux Finitions", duree_jours |-> 60, couleur |-> "#d62728"],
       [nom |-> "Essais Reception", duree_jours |-> 15, couleur |-> "#9467bd"],
       [nom |-> "Reception Travaux", duree_jours |-> 15, couleur |-> "#9467bd"],
       [nom |-> "Levee Reserves", duree_jours |-> 30, couleur |-> "#9467bd"],
       [nom |-> "Reception Definitive", duree_jours |-> 15, couleur |-> "#8c564b"],
       [nom |-> "Bilan Mission", duree_jours |-> 10, couleur |-> "#8c564b"]
    >>

TEMPLATE_AMO ==
    <<
       [nom |-> "Audit Initial", duree_jours |-> 15, couleur |-> "#2ca02c"],
       [nom |-> "Diagnostic Besoins", duree_jours |-> 20, couleur |-> "#2ca02c"],
       [nom |-> "Recommandations", duree_jours |-> 15, couleur |-> "#2ca02c"],
       [nom |-> "Assistance Programmation", duree_jours |-> 45, couleur |-> "#1f77b4"],
       [nom |-> "Validation Programme", duree_jours |-> 15, couleur |-> "#1f77b4"],
       [nom |-> "Assistance Etudes", duree_jours |-> 60, couleur |-> "#1f77b4"],
       [nom |-> "Assistance Consultation", duree_jours |-> 60, couleur |-> "#ff7f0e"],
       [nom |-> "Assistance Attribution", duree_jours |-> 30, couleur |-> "#ff7f0e"],
       [nom |-> "Assistance Marches", duree_jours |-> 20, couleur |-> "#ff7f0e"],
       [nom |-> "Assistance Realisation", duree_jours |-> 200, couleur |-> "#d62728"],
       [nom |-> "Suivi Qualite", duree_jours |-> 180, couleur |-> "#d62728"],
       [nom |-> "Assistance Reception", duree_jours |-> 30, couleur |-> "#9467bd"],
       [nom |-> "Assistance Livraison", duree_jours |-> 20, couleur |-> "#9467bd"],
       [nom |-> "Bilan Mission AMO", duree_jours |-> 15, couleur |-> "#8c564b"],
       [nom |-> "Retour d'Experience", duree_jours |-> 10, couleur |-> "#8c564b"]
    >>

TYPES_OPERATION == <<"OPP", "VEFA", "MANDATS_ETUDES", "MANDATS_REALISATION", "AMO">>

TEMPLATES_PHASES ==
    [t \in {"OPP", "VEFA", "MANDATS_ETUDES", "MANDATS_REALISATION", "AMO"} |->
        CASE t = "OPP" -> TEMPLATE_OPP
          [] t = "VEFA" -> TEMPLATE_VEFA
          [] t = "MANDATS_ETUDES" -> TEMPLATE_MANDATS_ETUDES
          [] t = "MANDATS_REALISATION" -> TEMPLATE_MANDATS_REALISATION
          [] t = "AMO" -> TEMPLATE_AMO]

UNITES_DUREE == [jours |-> 1, semaines |-> 7, mois |-> 30]

convert_to_days(valeur, unite) == valeur * UNITES_DUREE[unite]

\* a call of convert_to_days with any unit text: the dictionary lookup raises
\* KeyError for a key it does not hold
appel_convert_to_days(valeur, unite) ==
    IF unite \in DOMAIN UNITES_DUREE
    THEN [raised |-> "", value |-> convert_to_days(valeur, unite)]
    ELSE [raised |-> "KeyError", value |-> 0]

\* variant: the week test made before the month test
format_duration_semaines_d_abord(jours) ==
    IF jours >= 7 /\ jours % 7 = 0
    THEN <<jours \div 7, "semaines">>
    ELSE IF jours >= 30 /\ jours % 30 = 0
         THEN <<jours \div 30, "mois">>
         ELSE <<jours, "jours">>

\* the text f"{n} {unit}" is kept as the pair <<n, unit>>
format_duration(jours) ==
    IF jours >= 30 /\ jours % 30 = 0
    THEN <<jours \div 30, "mois">>
    ELSE IF jours >= 7 /\ jours % 7 = 0
         THEN <<jours \div 7, "semaines">>
         ELSE <<jours, "jours">>


(***************************************************************************)
(* Data classes Phase and Operation, as held in memory during one run.     *)
(***************************************************************************)
Phase(id, nom, date_debut, date_fin, couleur, statut, description, responsable, freins) ==
    [id |-> id, nom |-> nom, date_debut |-> date_debut, date_fin |-> date_fin,
     couleur |-> couleur, statut |-> statut, description |-> description,
     responsable |-> responsable, freins |-> freins]

Operation(id, nom, type_operation, aco_responsable, date_creation, date_debut, date_fin_prevue, budget, statut, phases) ==
    [id |-> id, nom |-> nom, type_operation |-> type_operation,
     aco_responsable |-> aco_responsable, date_creation |-> date_creation,
     date_debut |-> date_debut, date_fin_prevue |-> date_fin_prevue,
     budget |-> budget, statut |-> statut, phases |-> phases]

(***************************************************************************)
(* DatabaseManager.save_operation: INSERT OR REPLACE of the operation row  *)
(* (the replaced row is deleted and the new one gets a fresh rowid), then  *)
(* DELETE of the operation's phase rows and one INSERT per phase, in list  *)
(* order; everything is committed at once.                                 *)
(***************************************************************************)
operation_row(operation) ==
    [id |-> operation.id, nom |-> operation.nom,
     type_operation |-> operation.type_operation,
     aco_responsable |-> operation.aco_responsable,
     date_creation |-> isoformat(operation.date_creation),
     date_debut |-> isoformat(operation.date_debut),
     date_fin_prevue |-> isoformat(operation.date_fin_prevue),
     budget |-> operation.budget, statut |-> operation.statut]

phase_row(operation_id, phase) ==
    [id |-> phase.id, operation_id |-> operation_id, nom |-> phase.nom,
     date_debut |-> isoformat(phase.date_debut),
     date_fin |-> isoformat(phase.date_fin),
     couleur |-> phase.couleur, statut |-> phase.statut,
     description |-> phase.description, responsable |-> phase.responsable,
     freins |-> phase.freins]

\* variant: "DELETE FROM phases" without its WHERE clause
save_operation_sans_where(ops, phs, operation) ==
    [operations |->
        SelectSeq(ops, LAMBDA r : r.id # operation.id)
            \o <<operation_row(operation)>>,
     phases |->
        [i \in 1..Len(operation.phases) |->
            phase_row(operation.id, operation.phases[i])]]

save_operation(ops, phs, operation) ==
    [operations |->
        SelectSeq(ops, LAMBDA r : r.id # operation.id)
            \o <<operation_row(operation)>>,
     phases |->
        SelectSeq(phs, LAMBDA r : r.operation_id # operation.id)
            \o [i \in 1..Len(operation.phases) |->
                    phase_row(operation.id, operation.phases[i])]]

(***************************************************************************)
(* DatabaseManager.load_operations: the phases of each operation are read  *)
(* with ORDER BY date_debut.  SQL leaves the order of rows with equal keys *)
(* open, so loading yields any ordering of the rows that is sorted.        *)
(***************************************************************************)
StrictlySorted(rows) ==
    \A i \in 1..(Len(rows) - 1) : TextLess(rows[i].date_debut, rows[i + 1].date_debut)

Sorted(rows) ==
    \A i \in 1..(Len(rows) - 1) : ~TextLess(rows[i + 1].date_debut, rows[i].date_debut)

ORDER_BY_date_debut(rows) ==
    IF StrictlySorted(rows)
    THEN {rows}
    ELSE LET arrangements ==
                 {[i \in 1..Len(rows) |-> rows[f[i]]] : f \in Permutations(1..Len(rows))}
         IN  {r \in arrangements : Sorted(r)}

load_phase(phase_data) ==
    Phase(phase_data.id, phase_data.nom,
          fromisoformat(phase_data.date_debut), fromisoformat(phase_data.date_fin),
          phase_data.couleur, phase_data.statut, phase_data.description,
          phase_data.responsable, phase_data.freins)

load_operation(op_data, phases_data) ==
    Operation(op_data.id, op_data.nom, op_data.type_operation,
              op_data.aco_responsable, fromisoformat(op_data.date_creation),
              fromisoformat(op_data.date_debut), fromisoformat(op_data.date_fin_prevue),
              op_data.budget, op_data.statut,
              [i \in 1..Len(phases_data) |-> load_phase(phases_data[i])])

RECURSIVE load_operations(_, _)
load_operations(ops, phs) ==
    IF ops = <<>>
    THEN {<<>>}
    ELSE LET op_data == Head(ops)
             selected == SelectSeq(phs, LAMBDA r : r.operation_id = op_data.id)
         IN  {<<load_operation(op_data, phases_data)>> \o rest :
                 phases_data \in ORDER_BY_date_debut(selected),
                 rest \in load_operations(Tail(ops), phs)}


(***************************************************************************)
(* nouvelle_operation: the creation form and its submit handler.           *)
(***************************************************************************)
aco_names == <<"Jean MARTIN", "Marie DUBOIS", "Pierre BERNARD", "Sophie LEROY", "Michel PETIT">>

now == FirstDay                 \* datetime.now() of the run that creates the operation
budget_value == 100000          \* default of the budget number_input
couleur_value == "#1f77b4"      \* default of every color_picker

\* the rows of custom-phase widgets: one per i in range(nb_phases)
SaisiesPossibles(NbPhases, PhaseNoms, Valeurs, Unites) ==
    UNION {[1..nb_phases ->
               [phase_nom : PhaseNoms, phase_duree : Valeurs,
                phase_unite : Unites,
                phase_couleur : {couleur_value}]] : nb_phases \in NbPhases}

\* phases_personnalisees: only the rows whose name was typed are kept
phases_personnalisees(saisies) ==
    LET named == SelectSeq(saisies, LAMBDA w : w.phase_nom # "")
    IN  [i \in 1..Len(named) |->
            [nom |-> named[i].phase_nom,
             duree_jours |-> convert_to_days(named[i].phase_duree, named[i].phase_unite),
             couleur |-> named[i].phase_couleur]]

phases_template(type_operation, personnaliser, personnalisees) ==
    IF personnaliser /\ personnalisees # <<>>
    THEN personnalisees
    ELSE TEMPLATES_PHASES[type_operation]

\* variant of the loop whose cursor restarts on the end date itself
RECURSIVE creer_phases_meme_jour(_, _, _, _)
creer_phases_meme_jour(template, current_date, phase_id, aco_responsable) ==
    IF template = <<>>
    THEN <<>>
    ELSE LET phase_template == Head(template)
             date_fin_phase == current_date + phase_template.duree_jours
         IN  <<Phase(phase_id, phase_template.nom, current_date, date_fin_phase,
                     phase_template.couleur, "En attente", <<>>, aco_responsable, <<>>)>>
             \o creer_phases_meme_jour(Tail(template), date_fin_phase, phase_id + 1,
                                       aco_responsable)

\* the loop "for phase_template in phases_template" with its cursor current_date
RECURSIVE creer_phases(_, _, _, _)
creer_phases(template, current_date, phase_id, aco_responsable) ==
    IF template = <<>>
    THEN <<>>
    ELSE LET phase_template == Head(template)
             date_fin_phase == current_date + phase_template.duree_jours
         IN  <<Phase(phase_id, phase_template.nom, current_date, date_fin_phase,
                     phase_template.couleur, "En attente", <<>>, aco_responsable, <<>>)>>
             \o creer_phases(Tail(template), date_fin_phase + 1, phase_id + 1,
                             aco_responsable)

NoOperation == Operation(0, "", "", "", 0, 0, 0, 0, "", <<>>)

(***************************************************************************)
(* Browser sessions.  Each session runs the script on its own: the run     *)
(* loads the store, applies one handler to its own copy and saves it.      *)
(* pc is the position of the run; rows and operations are the cursor and   *)
(* the list built by load_operations; pending is the operation handed to   *)
(* save_operation; tx_operations and tx_phases are the tables as the       *)
(* connection of save_operation sees them before its commit; todo are the  *)
(* phases still to insert; concurrent records that a SELECT of the load    *)
(* ran while another session had written part of its phase rows.           *)
(***************************************************************************)
Sessions == {1, 2}

IdleSession ==
    [pc |-> "idle", rows |-> <<>>, operations |-> <<>>, pending |-> NoOperation,
     tx_operations |-> <<>>, tx_phases |-> <<>>, todo |-> <<>>, concurrent |-> FALSE]

NoSessions == [s \in Sessions |-> IdleSession]

nouvelle_operation(Noms, Types, Acos, Debuts, Delais, Saisies) ==
    \E nom \in Noms, type_operation \in Types, aco_responsable \in Acos,
       date_debut \in Debuts, delai \in Delais, personnaliser \in BOOLEAN :
       \E saisies \in (IF personnaliser THEN Saisies ELSE {<<>>}) :
          LET date_fin == date_debut + delai
              personnalisees == phases_personnalisees(saisies)
              form == [nom |-> nom, type_operation |-> type_operation,
                       aco_responsable |-> aco_responsable, date_debut |-> date_debut,
                       date_fin |-> date_fin, personnaliser |-> personnaliser,
                       phases_personnalisees |-> personnalisees]
          IN  IF nom = "" \/ type_operation = "" \/ aco_responsable = ""
              THEN /\ UNCHANGED <<db_operations, db_phases, next_uuid, sessions>>
                   /\ runs' = runs + 1
                   /\ last' = [kind |-> "nouvelle_operation", saved |-> FALSE,
                               form |-> [nom |-> nom, type_operation |-> type_operation,
                                         aco_responsable |-> aco_responsable],
                               operation |-> NoOperation,
                               operations0 |-> db_operations, phases0 |-> db_phases]
              ELSE LET operation_id == next_uuid
                       phases == creer_phases(
                                     phases_template(type_operation, personnaliser,
                                                     personnalisees),
                                     date_debut, next_uuid + 1, aco_responsable)
                       operation == Operation(operation_id, nom, type_operation,
                                              aco_responsable, now, date_debut, date_fin,
                                              budget_value, "Creee", phases)
                       db == save_operation(db_operations, db_phases, operation)
                   IN  /\ db_operations' = db.operations
                       /\ db_phases' = db.phases
                       /\ next_uuid' = next_uuid + 1 + Len(phases)
                       /\ UNCHANGED sessions
                       /\ runs' = runs + 1
                       /\ last' = [kind |-> "nouvelle_operation", saved |-> TRUE,
                                   form |-> form, operation |-> operation,
                                   operations0 |-> db_operations, phases0 |-> db_phases]

(***************************************************************************)
(* operations_en_cours: selection of the operation and of the phase.  The  *)
(* selectboxes show labels; the handler looks the label up again and takes *)
(* the first entry that carries it.                                        *)
(***************************************************************************)
\* list.index(x): position (from 1) of the first element equal to x
index(list, x) == CHOOSE i \in 1..Len(list) :
                      /\ list[i] = x
                      /\ \A j \in 1..(i - 1) : list[j] # x

operation_names(operations) ==
    [i \in 1..Len(operations) |-> <<operations[i].nom, operations[i].type_operation>>]

\* "for op in operations: if label == selected_name: ...; break"
selected_operation_index(operations, selected_name) ==
    index(operation_names(operations), selected_name)

replace_phase(operation, i, phase) ==
    [operation EXCEPT !.phases = [operation.phases EXCEPT ![i] = phase]]

(***************************************************************************)
(* Tab "Liste des Phases": the quick actions Terminer, Demarrer, Retard.   *)
(***************************************************************************)
\* variant: the first phase started puts the operation itself "En cours"
action_rapide_demarre_operation(operation, i, statut) ==
    [replace_phase(operation, i, [operation.phases[i] EXCEPT !.statut = statut])
        EXCEPT !.statut = IF statut = "En cours" THEN "En cours" ELSE @]

action_rapide(operation, i, statut) ==
    replace_phase(operation, i, [operation.phases[i] EXCEPT !.statut = statut])

(***************************************************************************)
(* Tab "Ajouter Phase": the add_phase form.                                *)
(***************************************************************************)
A_la_fin == <<"A la fin">>

positions(phases) ==
    <<A_la_fin>> \o [i \in 1..Len(phases) |-> <<"Avant", phases[i].nom>>]

\* idx = positions.index(position) - 1, as a position (from 1) in the phase list
insertion_idx(phases, position) == index(positions(phases), position) - 1

\* variant: only the phases after the target move
decaler_phases_suivantes(phases, idx, new_phase_duree) ==
    [i \in 1..Len(phases) |->
        IF i > idx
        THEN [phases[i] EXCEPT !.date_debut = @ + new_phase_duree,
                               !.date_fin = @ + new_phase_duree]
        ELSE phases[i]]

\* "for phase in selected_operation.phases[idx:]": both dates move by the duration
decaler_phases(phases, idx, new_phase_duree) ==
    [i \in 1..Len(phases) |->
        IF i >= idx
        THEN [phases[i] EXCEPT !.date_debut = @ + new_phase_duree,
                               !.date_fin = @ + new_phase_duree]
        ELSE phases[i]]

\* variant: an appended phase starts on the day the last phase ends
new_phase_date_debut_meme_jour(operation, position) ==
    IF position = A_la_fin /\ operation.phases # <<>>
    THEN operation.phases[Len(operation.phases)].date_fin
    ELSE IF position # A_la_fin
         THEN operation.phases[insertion_idx(operation.phases, position)].date_debut
         ELSE operation.date_debut

new_phase_date_debut(operation, position) ==
    IF position = A_la_fin /\ operation.phases # <<>>
    THEN operation.phases[Len(operation.phases)].date_fin + 1
    ELSE IF position # A_la_fin
         THEN operation.phases[insertion_idx(operation.phases, position)].date_debut
         ELSE operation.date_debut

\* variant: the end date counted without the day the phase starts on
new_phase_date_fin_sans_jour(date_debut, new_phase_duree) == date_debut + new_phase_duree

new_phase_date_fin(date_debut, new_phase_duree) == date_debut + (new_phase_duree - 1)

\* variant: the element at idx is overwritten, as by list[idx] = x
insert_remplace(list, idx, x) ==
    [i \in 1..Len(list) |-> IF i = idx THEN x ELSE list[i]]

\* list.insert(idx, x) with idx counted from 1
insert(list, idx, x) ==
    [i \in 1..(Len(list) + 1) |->
        IF i < idx THEN list[i] ELSE IF i = idx THEN x ELSE list[i - 1]]

ajouter_phase(operation, new_phase_nom, new_phase_duree, new_phase_couleur, new_phase_description, new_phase_responsable, position, phase_id) ==
    LET date_debut == new_phase_date_debut(operation, position)
        date_fin == new_phase_date_fin(date_debut, new_phase_duree)
        shifted == IF position # A_la_fin
                   THEN decaler_phases(operation.phases,
                                       insertion_idx(operation.phases, position),
                                       new_phase_duree)
                   ELSE operation.phases
        new_phase == Phase(phase_id, new_phase_nom, date_debut, date_fin,
                           new_phase_couleur, "En attente", new_phase_description,
                           new_phase_responsable, <<>>)
    IN  [operation EXCEPT !.phases =
            IF position = A_la_fin
            THEN Append(shifted, new_phase)
            ELSE insert(shifted, insertion_idx(operation.phases, position), new_phase)]


(***************************************************************************)
(* Tab "Modifier Phase": the modify_phase form.                            *)
(***************************************************************************)
phase_names(phases) ==
    [i \in 1..Len(phases) |-> <<phases[i].nom, phases[i].statut>>]

\* "for phase in phases: if label == selected_phase_name: ...; break"
selected_phase_index(phases, selected_phase_name) ==
    index(phase_names(phases), selected_phase_name)

\* list.remove(x): drops the first element equal to x
remove(list, x) ==
    LET k == index(list, x)
    IN  [i \in 1..(Len(list) - 1) |-> IF i < k THEN list[i] ELSE list[i + 1]]

RECURSIVE remove_all(_, _)
remove_all(list, freins_to_remove) ==
    IF freins_to_remove = <<>>
    THEN list
    ELSE remove_all(remove(list, Head(freins_to_remove)), Tail(freins_to_remove))

\* freins_actuels as the form computes it from the widgets: cases is the set of
\* ticked "Suppr." boxes, the two buttons add the typed and the predefined text
freins_actuels(freins, cases, nouveau_frein, bouton_ajouter, frein_predefini, bouton_predefini) ==
    LET freins_to_remove ==
            LET ticked == SelectSeq([i \in 1..Len(freins) |-> i], LAMBDA i : i \in cases)
            IN  [j \in 1..Len(ticked) |-> freins[ticked[j]]]
        apres_suppr == remove_all(freins, freins_to_remove)
        apres_ajout ==
            IF bouton_ajouter /\ nouveau_frein # ""
                 /\ \A i \in 1..Len(apres_suppr) : apres_suppr[i] # nouveau_frein
            THEN Append(apres_suppr, nouveau_frein)
            ELSE apres_suppr
    IN  IF frein_predefini # ""
            /\ (\A i \in 1..Len(apres_ajout) : apres_ajout[i] # frein_predefini)
            /\ bouton_predefini
        THEN Append(apres_ajout, frein_predefini)
        ELSE apres_ajout

modifier_phase(operation, i, mod_statut, mod_responsable, mod_date_debut, mod_date_fin, mod_description, freins) ==
    replace_phase(operation, i,
        [operation.phases[i] EXCEPT
            !.statut = mod_statut, !.responsable = mod_responsable,
            !.date_debut = mod_date_debut, !.date_fin = mod_date_fin,
            !.description = mod_description, !.freins = freins])

(***************************************************************************)
(* One Streamlit run of operations_en_cours per action: load_operations,   *)
(* the handler, save_operation.                                            *)
(***************************************************************************)
STATUTS == <<"En attente", "En cours", "Termine", "Retard">>

Saved(kind, selected, operation, input) ==
    LET db == save_operation(db_operations, db_phases, operation)
    IN  /\ db_operations' = db.operations
        /\ db_phases' = db.phases
        /\ runs' = runs + 1
        /\ UNCHANGED sessions
        /\ last' = [kind |-> kind, saved |-> TRUE, form |-> input,
                    selected |-> selected, operation |-> operation,
                    operations0 |-> db_operations, phases0 |-> db_phases]

ActionRapide ==
    /\ runs < MaxRuns
    /\ \E operations \in load_operations(db_operations, db_phases) :
       \E k \in 1..Len(operations) :
          LET selected ==
                  operations[selected_operation_index(operations,
                                                      operation_names(operations)[k])]
          IN  /\ Len(selected.phases) <= MaxPhases
              /\ \E i \in 1..Len(selected.phases), statut \in {"Termine", "En cours", "Retard"} :
                    /\ Saved("action_rapide", selected, action_rapide(selected, i, statut),
                             [i |-> i, statut |-> statut])
                    /\ UNCHANGED next_uuid

AjouterPhase(Noms, Valeurs) ==
    /\ runs < MaxRuns
    /\ \E operations \in load_operations(db_operations, db_phases) :
       \E k \in 1..Len(operations) :
          LET selected ==
                  operations[selected_operation_index(operations,
                                                      operation_names(operations)[k])]
          IN  /\ Len(selected.phases) < MaxPhases
              /\ \E new_phase_nom \in Noms, new_duree \in Valeurs,
                    new_unite \in {"jours", "semaines", "mois"},
                    p \in 1..(Len(selected.phases) + 1) :
                    LET position == positions(selected.phases)[p]
                        new_phase_duree == convert_to_days(new_duree, new_unite)
                    IN  IF new_phase_nom # ""
                        THEN /\ Saved("ajouter_phase", selected,
                                      ajouter_phase(selected, new_phase_nom, new_phase_duree,
                                                    couleur_value, <<>>, selected.aco_responsable,
                                                    position, next_uuid),
                                      [new_phase_nom |-> new_phase_nom,
                                       new_phase_duree |-> new_phase_duree,
                                       p |-> p, position |-> position])
                             /\ next_uuid' = next_uuid + 1
                        ELSE UNCHANGED vars

ModifierPhase(Statuts, Dates, Freins) ==
    /\ runs < MaxRuns
    /\ \E operations \in load_operations(db_operations, db_phases) :
       \E k \in 1..Len(operations) :
          LET selected ==
                  operations[selected_operation_index(operations,
                                                      operation_names(operations)[k])]
          IN  /\ selected.phases # <<>>
              /\ Len(selected.phases) <= MaxPhases
              /\ \E n \in 1..Len(selected.phases) :
                    LET i == selected_phase_index(selected.phases,
                                                  phase_names(selected.phases)[n])
                        selected_phase == selected.phases[i]
                    IN  \E mod_statut \in {selected_phase.statut} \cup Statuts,
                           mod_date_debut \in {selected_phase.date_debut} \cup Dates,
                           mod_date_fin \in {selected_phase.date_fin} \cup Dates,
                           cases \in SUBSET (1..Len(selected_phase.freins)),
                           ajout \in Freins :
                           /\ Saved("modifier_phase", selected,
                                    modifier_phase(selected, i, mod_statut,
                                        selected_phase.responsable, mod_date_debut,
                                        mod_date_fin, selected_phase.description,
                                        freins_actuels(selected_phase.freins, cases,
                                                       ajout[1], ajout[1] # "",
                                                       ajout[2], ajout[2] # "")),
                                    [n |-> n, i |-> i, mod_statut |-> mod_statut,
                                     mod_date_debut |-> mod_date_debut,
                                     mod_date_fin |-> mod_date_fin, cases |-> cases,
                                     nouveau_frein |-> ajout[1],
                                     frein_predefini |-> ajout[2]])
                           /\ UNCHANGED next_uuid

(***************************************************************************)
(* freins_alertes: the page lists the late phases and the phases that have *)
(* blockers of every operation; its buttons change the phase of an alert   *)
(* in the loaded copy and save the operation of the alert.  An alert is    *)
(* kept as <<k, i>>: phase i of operation k of the loaded list.            *)
(***************************************************************************)
RECURSIVE concat(_)
concat(lists) == IF lists = <<>> THEN <<>> ELSE Head(lists) \o concat(Tail(lists))

\* "for op in operations: for phase in op.phases"
phase_refs(operations) ==
    concat([k \in 1..Len(operations) |->
               [i \in 1..Len(operations[k].phases) |-> <<k, i>>]])

alerte_phase(operations, alerte) == operations[alerte[1]].phases[alerte[2]]

alertes_retard(operations) ==
    SelectSeq(phase_refs(operations),
              LAMBDA a : alerte_phase(operations, a).statut = "Retard")

alertes_freins(operations) ==
    SelectSeq(phase_refs(operations),
              LAMBDA a : alerte_phase(operations, a).freins # <<>>)

\* variant: a resolved delay lifts the blockers of the phase as well
resoudre_retard_et_lever(operations, alerte) ==
    [operations EXCEPT ![alerte[1]].phases[alerte[2]].statut = "En cours",
                       ![alerte[1]].phases[alerte[2]].freins = <<>>]

\* button "Resolu"
resoudre_retard(operations, alerte) ==
    [operations EXCEPT ![alerte[1]].phases[alerte[2]].statut = "En cours"]

\* button "Reprogrammer": seven days more on the end date
reprogrammer(operations, alerte) ==
    [operations EXCEPT ![alerte[1]].phases[alerte[2]].date_fin = @ + 7]

\* button "Lever Freins"
lever_freins(operations, alerte) ==
    [operations EXCEPT ![alerte[1]].phases[alerte[2]].freins = <<>>]

\* form "Ajouter Frein"
ajouter_frein(operations, alerte, new_frein) ==
    [operations EXCEPT ![alerte[1]].phases[alerte[2]].freins = Append(@, new_frein)]

\* "CRITIQUE" not in phase.freins: a test on the elements of the list
est_marquee_critique(freins) == \E j \in 1..Len(freins) : freins[j] = "CRITIQUE"

marquer_critique(operations, alerte) ==
    [operations EXCEPT ![alerte[1]].phases[alerte[2]].freins =
                           Append(@, "CRITIQUE - Action requise")]

\* description += f" | Freins leves: {motif}": a description is kept as the
\* list of the pieces of text appended to the empty text
lever_avec_motif(operations, alerte, motif) ==
    [operations EXCEPT ![alerte[1]].phases[alerte[2]].freins = <<>>,
                       ![alerte[1]].phases[alerte[2]].description =
                           IF motif # "" THEN Append(@, <<" | Freins leves: ", motif>>) ELSE @]

\* the loops of the tab "Actions": every alert in turn changes the loaded copy
\* and saves the operation of the alert; count is the number of saves
RECURSIVE reprogrammer_tous(_, _, _, _, _)
reprogrammer_tous(operations, alertes, ops, phs, count) ==
    IF alertes = <<>>
    THEN [loaded |-> operations, operations |-> ops, phases |-> phs, count |-> count]
    ELSE LET changed == reprogrammer(operations, Head(alertes))
             db == save_operation(ops, phs, changed[Head(alertes)[1]])
         IN  reprogrammer_tous(changed, Tail(alertes), db.operations, db.phases, count + 1)

RECURSIVE marquer_critiques(_, _, _, _, _)
marquer_critiques(operations, alertes, ops, phs, count) ==
    IF alertes = <<>>
    THEN [loaded |-> operations, operations |-> ops, phases |-> phs, count |-> count]
    ELSE IF ~est_marquee_critique(alerte_phase(operations, Head(alertes)).freins)
         THEN LET changed == marquer_critique(operations, Head(alertes))
                  db == save_operation(ops, phs, changed[Head(alertes)[1]])
              IN  marquer_critiques(changed, Tail(alertes), db.operations, db.phases,
                                    count + 1)
         ELSE marquer_critiques(operations, Tail(alertes), ops, phs, count)

RECURSIVE lever_tous(_, _, _, _, _, _)
lever_tous(operations, alertes, motif, ops, phs, count) ==
    IF alertes = <<>>
    THEN [loaded |-> operations, operations |-> ops, phases |-> phs, count |-> count]
    ELSE LET changed == lever_avec_motif(operations, Head(alertes), motif)
             db == save_operation(ops, phs, changed[Head(alertes)[1]])
         IN  lever_tous(changed, Tail(alertes), motif, db.operations, db.phases, count + 1)

\* a button of one alert: the operation of the alert is saved
SavedAlerte(kind, operations, alerte, changed, input) ==
    /\ Saved(kind, operations[alerte[1]], changed[alerte[1]],
             [alerte |-> alerte, i |-> alerte[2], input |-> input])
    /\ UNCHANGED next_uuid

ResoudreRetard ==
    /\ runs < MaxRuns
    /\ \E operations \in load_operations(db_operations, db_phases) :
       \E n \in 1..Len(alertes_retard(operations)) :
          LET alerte == alertes_retard(operations)[n]
          IN  SavedAlerte("resoudre_retard", operations, alerte,
                          resoudre_retard(operations, alerte), "")

Reprogrammer ==
    /\ runs < MaxRuns
    /\ \E operations \in load_operations(db_operations, db_phases) :
       \E n \in 1..Len(alertes_retard(operations)) :
          LET alerte == alertes_retard(operations)[n]
          IN  SavedAlerte("reprogrammer", operations, alerte,
                          reprogrammer(operations, alerte), "")

LeverFreins ==
    /\ runs < MaxRuns
    /\ \E operations \in load_operations(db_operations, db_phases) :
       \E n \in 1..Len(alertes_freins(operations)) :
          LET alerte == alertes_freins(operations)[n]
          IN  SavedAlerte("lever_freins", operations, alerte,
                          lever_freins(operations, alerte), "")

AjouterFrein(Textes) ==
    /\ runs < MaxRuns
    /\ \E operations \in load_operations(db_operations, db_phases) :
       \E n \in 1..Len(alertes_freins(operations)), new_frein \in Textes :
          LET alerte == alertes_freins(operations)[n]
          IN  /\ new_frein # ""
              /\ SavedAlerte("ajouter_frein", operations, alerte,
                             ajouter_frein(operations, alerte, new_frein), new_frein)

\* a button of the tab "Actions"
SavedTous(kind, operations, done, input) ==
    /\ done.count > 0
    /\ db_operations' = done.operations
    /\ db_phases' = done.phases
    /\ runs' = runs + 1
    /\ last' = [kind |-> kind, saved |-> TRUE, form |-> input,
                loaded |-> operations, result |-> done.loaded, count |-> done.count,
                operations0 |-> db_operations, phases0 |-> db_phases]
    /\ UNCHANGED <<next_uuid, sessions>>

ReprogrammerTous ==
    /\ runs < MaxRuns
    /\ \E operations \in load_operations(db_operations, db_phases) :
          SavedTous("reprogrammer_tous", operations,
                    reprogrammer_tous(operations, alertes_retard(operations),
                                      db_operations, db_phases, 0), "")

MarquerCritiques ==
    /\ runs < MaxRuns
    /\ \E operations \in load_operations(db_operations, db_phases) :
          SavedTous("marquer_critiques", operations,
                    marquer_critiques(operations, alertes_retard(operations),
                                      db_operations, db_phases, 0), "")

LeverTous(Motifs) ==
    /\ runs < MaxRuns
    /\ \E operations \in load_operations(db_operations, db_phases), motif \in Motifs :
          SavedTous("lever_tous", operations,
                    lever_tous(operations, alertes_freins(operations), motif,
                               db_operations, db_phases, 0), motif)

(***************************************************************************)
(* The creation form alone, with every kind of input it accepts.           *)
(***************************************************************************)
Init ==
    /\ db_operations = <<>>
    /\ db_phases = <<>>
    /\ next_uuid = 1
    /\ sessions = NoSessions
    /\ runs = 0
    /\ last = [kind |-> "init", saved |-> FALSE]

TypesOperation == {TYPES_OPERATION[i] : i \in 1..Len(TYPES_OPERATION)}

SoumettreCreation ==
    /\ runs = 0
    /\ nouvelle_operation({"", "Residence"}, TypesOperation, {"", aco_names[1]},
                          {FirstDay, FirstDay + 45}, {0, 365},
                          SaisiesPossibles(1..MaxNbPhases, {"", "A"}, 1..MaxValeur,
                                           {"jours", "semaines", "mois"}))

NextCreation == SoumettreCreation

SpecCreation == Init /\ [][NextCreation]_vars

(***************************************************************************)
(* The application: creation and phase management, every form field free.  *)
(***************************************************************************)
CreerOperation ==
    /\ runs < MaxRuns
    /\ nouvelle_operation({"Residence"}, {"AMO"}, {aco_names[1]}, {FirstDay}, {365},
                          SaisiesPossibles({1, 2}, {"A", "B"}, {1}, {"jours"}))

\* what the user adds in the modify form: <<typed text, predefined choice>>
FreinsSaisis == {<<"", "">>, <<"Permis conteste", "">>, <<"Permis conteste", "Attente validation">>}

Next ==
    \/ CreerOperation
    \/ ActionRapide
    \/ AjouterPhase({"B"}, {1})
    \/ ModifierPhase({}, {FirstDay}, {<<"", "">>, <<"Permis conteste", "">>})
    \/ ResoudreRetard
    \/ Reprogrammer
    \/ LeverFreins
    \/ AjouterFrein({"", "Recours"})
    \/ ReprogrammerTous
    \/ MarquerCritiques
    \/ LeverTous({"", "regle"})

Spec == Init /\ [][Next]_vars

(***************************************************************************)
(* The same, with the dates of the modify form left as displayed: the      *)
(* schedule changes only through creation and insertion.                   *)
(***************************************************************************)
NextSequence ==
    \/ CreerOperation
    \/ ActionRapide
    \/ AjouterPhase({"B"}, {1})
    \/ ModifierPhase({"Retard"}, {}, FreinsSaisis)

SpecSequence == Init /\ [][NextSequence]_vars

(***************************************************************************)
(* Statuses and blockers only: the quick actions, the modify form with its *)
(* dates left as displayed, and the buttons of the page freins_alertes     *)
(* that leave the dates alone.                                             *)
(***************************************************************************)
NextAlertes ==
    \/ CreerOperation
    \/ ActionRapide
    \/ ModifierPhase({"Retard"}, {}, FreinsSaisis)
    \/ ResoudreRetard
    \/ LeverFreins
    \/ AjouterFrein({"", "Recours"})
    \/ MarquerCritiques
    \/ LeverTous({"", "regle"})

SpecAlertes == Init /\ [][NextAlertes]_vars


(***************************************************************************)
(* Two sessions on one database file.  save_operation works on its own     *)
(* connection: its statements build, row by row, a state of the tables     *)
(* that the other connections do not read, and conn.commit() publishes it. *)
(* Only one connection writes at a time; the other one waits.  Every       *)
(* SELECT of load_operations is a statement of its own and reads what is   *)
(* committed when it executes.                                             *)
(***************************************************************************)
Run(s) == sessions[s]

\* the connection of session s has written and not committed yet
Writing(s) == Run(s).pc \in {"delete", "insert", "commit"}

\* a save of another session is under way with only part of its phase rows
PartlyWritten(s) ==
    \E t \in Sessions \ {s} :
       /\ Run(t).pc \in {"delete", "insert"}
       /\ Run(t).pending.phases # <<>>

\* variant: the SELECT reads the rows another connection has not committed yet
select_phases_non_valides(s, operation_id) ==
    LET writers == {t \in Sessions \ {s} : Writing(t)}
        table == IF writers # {}
                 THEN sessions[CHOOSE t \in writers : TRUE].tx_phases
                 ELSE db_phases
    IN  ORDER_BY_date_debut(SelectSeq(table, LAMBDA r : r.operation_id = operation_id))

\* "SELECT * FROM phases WHERE operation_id = ? ORDER BY date_debut"
select_phases(s, operation_id) ==
    ORDER_BY_date_debut(SelectSeq(db_phases, LAMBDA r : r.operation_id = operation_id))

\* "INSERT OR REPLACE INTO operations"
tx_replace(tx_operations, operation) ==
    SelectSeq(tx_operations, LAMBDA r : r.id # operation.id) \o <<operation_row(operation)>>

\* variant: the rows of phases the saved copy does not know are kept
tx_delete_sauf_inconnues(tx_phases, operation) ==
    SelectSeq(tx_phases,
              LAMBDA r : \/ r.operation_id # operation.id
                         \/ r.id \notin {operation.phases[i].id : i \in 1..Len(operation.phases)})

\* "DELETE FROM phases WHERE operation_id = ?"
tx_delete(tx_phases, operation) ==
    SelectSeq(tx_phases, LAMBDA r : r.operation_id # operation.id)

\* "INSERT INTO phases" of one phase
tx_insert(tx_phases, operation, phase) == Append(tx_phases, phase_row(operation.id, phase))

\* the script starts: "SELECT * FROM operations"
LoadSelectOperations(s) ==
    /\ Run(s).pc = "idle"
    /\ runs < MaxLoads
    /\ db_operations # <<>>
    /\ sessions' = [sessions EXCEPT ![s] =
                       [IdleSession EXCEPT !.pc = "load", !.rows = db_operations]]
    /\ runs' = runs + 1
    /\ UNCHANGED <<db_operations, db_phases, next_uuid, last>>

\* one turn of "for op_data in operations_data"
LoadSelectPhases(s) ==
    /\ Run(s).pc = "load"
    /\ \E phases_data \in select_phases(s, Head(Run(s).rows).id) :
          sessions' = [sessions EXCEPT ![s] =
             [@ EXCEPT !.rows = Tail(@),
                       !.operations = Append(@, load_operation(Head(Run(s).rows),
                                                               phases_data)),
                       !.pc = IF Tail(Run(s).rows) = <<>> THEN "loaded" ELSE "load",
                       !.concurrent = @ \/ PartlyWritten(s)]]
    /\ UNCHANGED <<db_operations, db_phases, next_uuid, runs, last>>

\* the run handles a quick action on its copy and calls save_operation
HandlerActionRapide(s) ==
    /\ Run(s).pc = "loaded"
    /\ \E k \in 1..Len(Run(s).operations) :
          LET operations == Run(s).operations
              selected ==
                  operations[selected_operation_index(operations,
                                                      operation_names(operations)[k])]
          IN  \E i \in 1..Len(selected.phases) :
                 sessions' = [sessions EXCEPT ![s] =
                    [@ EXCEPT !.pc = "replace",
                              !.pending = action_rapide(selected, i, "En cours")]]
    /\ UNCHANGED <<db_operations, db_phases, next_uuid, runs, last>>

\* the run handles the add_phase form on its copy and calls save_operation
HandlerAjouterPhase(s) ==
    /\ Run(s).pc = "loaded"
    /\ \E k \in 1..Len(Run(s).operations) :
          LET operations == Run(s).operations
              selected ==
                  operations[selected_operation_index(operations,
                                                      operation_names(operations)[k])]
          IN  /\ Len(selected.phases) < MaxPhases
              /\ \E p \in 1..(Len(selected.phases) + 1) :
                    sessions' = [sessions EXCEPT ![s] =
                       [@ EXCEPT !.pc = "replace",
                                 !.pending =
                                     ajouter_phase(selected, "C", 7, couleur_value, <<>>,
                                                   selected.aco_responsable,
                                                   positions(selected.phases)[p],
                                                   next_uuid)]]
    /\ next_uuid' = next_uuid + 1
    /\ UNCHANGED <<db_operations, db_phases, runs, last>>

SaveReplace(s) ==
    /\ Run(s).pc = "replace"
    /\ \A t \in Sessions \ {s} : ~Writing(t)
    /\ sessions' = [sessions EXCEPT ![s] =
          [@ EXCEPT !.pc = "delete",
                    !.tx_operations = tx_replace(db_operations, Run(s).pending),
                    !.tx_phases = db_phases]]
    /\ UNCHANGED <<db_operations, db_phases, next_uuid, runs, last>>

SaveDelete(s) ==
    /\ Run(s).pc = "delete"
    /\ sessions' = [sessions EXCEPT ![s] =
          [@ EXCEPT !.pc = IF Run(s).pending.phases = <<>> THEN "commit" ELSE "insert",
                    !.tx_phases = tx_delete(@, Run(s).pending),
                    !.todo = Run(s).pending.phases]]
    /\ UNCHANGED <<db_operations, db_phases, next_uuid, runs, last>>

SaveInsert(s) ==
    /\ Run(s).pc = "insert"
    /\ sessions' = [sessions EXCEPT ![s] =
          [@ EXCEPT !.pc = IF Tail(Run(s).todo) = <<>> THEN "commit" ELSE "insert",
                    !.tx_phases = tx_insert(@, Run(s).pending, Head(Run(s).todo)),
                    !.todo = Tail(@)]]
    /\ UNCHANGED <<db_operations, db_phases, next_uuid, runs, last>>

\* conn.commit(): the other connections read the new rows from now on
Commit(s) ==
    /\ Run(s).pc = "commit"
    /\ db_operations' = Run(s).tx_operations
    /\ db_phases' = Run(s).tx_phases
    /\ sessions' = [sessions EXCEPT ![s] = IdleSession]
    /\ last' = [kind |-> "commit", saved |-> TRUE, session |-> s,
                operation |-> Run(s).pending, loaded |-> Run(s).operations,
                operations0 |-> db_operations, phases0 |-> db_phases,
                versions |-> last.versions \cup
                    UNION {{<<operations[k].id, operations[k].phases>> :
                               k \in 1..Len(operations)} :
                           operations \in load_operations(Run(s).tx_operations,
                                                          Run(s).tx_phases)}]
    /\ UNCHANGED <<next_uuid, runs>>

\* the database holds an operation made with the creation form
StoredOperation ==
    Operation(1, "Residence", "AMO", aco_names[1], now, FirstDay, FirstDay + 365,
              budget_value, "Creee",
              creer_phases(<<[nom |-> "A", duree_jours |-> 1, couleur |-> couleur_value],
                             [nom |-> "B", duree_jours |-> 1, couleur |-> couleur_value]>>,
                           FirstDay, 2, aco_names[1]))

InitSessions ==
    /\ db_operations = save_operation(<<>>, <<>>, StoredOperation).operations
    /\ db_phases = save_operation(<<>>, <<>>, StoredOperation).phases
    /\ next_uuid = 4
    /\ runs = 0
    /\ sessions = NoSessions
    /\ last = [kind |-> "init", saved |-> FALSE,
               versions |-> {<<StoredOperation.id, StoredOperation.phases>>}]

NextSessions ==
    \E s \in Sessions :
       \/ LoadSelectOperations(s)
       \/ LoadSelectPhases(s)
       \/ HandlerActionRapide(s)
       \/ HandlerAjouterPhase(s)
       \/ SaveReplace(s)
       \/ SaveDelete(s)
       \/ SaveInsert(s)
       \/ Commit(s)

SpecSessions == InitSessions /\ [][NextSessions]_vars

(***************************************************************************)
(* create_timeline_gantt: the figure drawn for the selected operation, one *)
(* horizontal bar per phase and one arrow between consecutive phases.      *)
(***************************************************************************)
\* (phase.date_fin - phase.date_debut).days
bar_duration(phase) == phase.date_fin - phase.date_debut

\* variant: a phase that has blockers is drawn in the colour of a late phase
bar_color_freins(phase) ==
    IF phase.freins # <<>> THEN "#dc3545"
    ELSE IF phase.statut = "Termine" THEN "#28a745"
    ELSE IF phase.statut = "En cours" THEN "#007bff"
    ELSE IF phase.statut = "Retard" THEN "#dc3545"
    ELSE phase.couleur

bar_color(phase) ==
    IF phase.statut = "Termine" THEN "#28a745"
    ELSE IF phase.statut = "En cours" THEN "#007bff"
    ELSE IF phase.statut = "Retard" THEN "#dc3545"
    ELSE phase.couleur

\* the warning sign put after the name of a phase that has blockers
bar_icon(phase) == IF phase.freins # <<>> THEN "(!)" ELSE ""

bar(phase) ==
    [name |-> phase.nom,
     x |-> bar_duration(phase),
     y |-> <<phase.nom, bar_icon(phase)>>,
     color |-> bar_color(phase),
     opacity |-> IF phase.freins # <<>> THEN 80 ELSE 100,
     base |-> phase.date_debut,
     text |-> <<phase.nom, format_duration(bar_duration(phase))>>]

\* variant: the arrow leaves from the start of the phase
annotations_debut(phases) ==
    [i \in 1..(Len(phases) - 1) |->
        [x |-> phases[i].date_debut, y |-> i - 1,
         ax |-> phases[i + 1].date_debut, ay |-> i]]

\* "if i < len(operation.phases) - 1": an arrow for every phase but the last
annotations(phases) ==
    [i \in 1..(Len(phases) - 1) |->
        [x |-> phases[i].date_fin, y |-> i - 1,
         ax |-> phases[i + 1].date_debut, ay |-> i]]

\* without phases the function warns and returns None, and nothing is drawn
create_timeline_gantt(operation) ==
    IF operation.phases = <<>>
    THEN [fig |-> FALSE, warning |-> TRUE, bars |-> <<>>, annotations |-> <<>>]
    ELSE [fig |-> TRUE, warning |-> FALSE,
          bars |-> [i \in 1..Len(operation.phases) |-> bar(operation.phases[i])],
          annotations |-> annotations(operation.phases)]

(***************************************************************************)
(* The two duration helpers called on their own, with any argument.        *)
(***************************************************************************)
ConvertToDays ==
    \E valeur \in (-2)..MaxSaisie, unite \in {"jours", "semaines", "mois", "annees"} :
       /\ last' = [kind |-> "convert_to_days", saved |-> FALSE,
                   valeur |-> valeur, unite |-> unite,
                   result |-> appel_convert_to_days(valeur, unite)]
       /\ UNCHANGED <<db_operations, db_phases, next_uuid, runs, sessions>>

FormatDuration ==
    \E jours \in 0..MaxJours :
       /\ last' = [kind |-> "format_duration", saved |-> FALSE,
                   jours |-> jours, result |-> format_duration(jours)]
       /\ UNCHANGED <<db_operations, db_phases, next_uuid, runs, sessions>>

NextDuree == ConvertToDays \/ FormatDuration

SpecDuree == Init /\ [][NextDuree]_vars

(***************************************************************************)
(* The application started on a database file that already holds an        *)
(* operation without phase rows (Operation.phases defaults to the empty    *)
(* list, and load_operations returns such an operation as it is).          *)
(***************************************************************************)
ExistingOperation ==
    Operation(0, "Existante", "AMO", aco_names[2], now, FirstDay + 10,
              FirstDay + 375, budget_value, "Creee", <<>>)

InitExistingStore ==
    /\ db_operations = save_operation(<<>>, <<>>, ExistingOperation).operations
    /\ db_phases = save_operation(<<>>, <<>>, ExistingOperation).phases
    /\ next_uuid = 1
    /\ sessions = NoSessions
    /\ runs = 0
    /\ last = [kind |-> "init", saved |-> FALSE]

\* creation, quick actions and added phases on that store
NextExistingStore == CreerOperation \/ ActionRapide \/ AjouterPhase({"B"}, {1})

SpecExistingStore == InitExistingStore /\ [][NextExistingStore]_vars

(***************************************************************************)
(* Figures shown to the user: "Avancement" of the selected operation and   *)
(* "Alertes Critiques" of the dashboard.  The percentage is kept as the    *)
(* fraction num / den of 100.                                              *)
(***************************************************************************)
\* variant: every phase that has left "En attente" counts as completed
phases_completed_demarrees(operation) ==
    Len(SelectSeq(operation.phases, LAMBDA p : p.statut # "En attente"))

phases_completed(operation) ==
    Len(SelectSeq(operation.phases, LAMBDA p : p.statut = "Termine"))

progress_pct(operation) ==
    IF operation.phases # <<>>
    THEN [num |-> phases_completed(operation) * 100, den |-> Len(operation.phases)]
    ELSE [num |-> 0, den |-> 1]

RECURSIVE sum(_)
sum(list) == IF list = <<>> THEN 0 ELSE Head(list) + sum(Tail(list))

phases_en_retard(operations) ==
    sum([k \in 1..Len(operations) |->
            Len(SelectSeq(operations[k].phases, LAMBDA phase : phase.statut = "Retard"))])

freins_critiques(operations) ==
    sum([k \in 1..Len(operations) |->
            Len(SelectSeq(operations[k].phases, LAMBDA phase : phase.freins # <<>>))])

\* variant: a phase that is late and blocked counts once
alertes_critiques_sans_doublon(operations) ==
    sum([k \in 1..Len(operations) |->
            Len(SelectSeq(operations[k].phases,
                          LAMBDA phase : phase.statut = "Retard" \/ phase.freins # <<>>))])

alertes_critiques(operations) == phases_en_retard(operations) + freins_critiques(operations)

(***************************************************************************)
(* opcopilot_app.py, the earlier version of the application.  Its store,   *)
(* its creation form and its selection of an operation read as above; its  *)
(* page timeline_gantt holds the add_phase and the modify_phase forms.     *)
(***************************************************************************)
\* DatabaseManager.load_operations of opcopilot_app.py: "SELECT * FROM phases
\* WHERE operation_id = ?" has no ORDER BY; SQLite scans the table by rowid,
\* which is the order in which save_operation inserted the rows
load_operations_app(ops, phs) ==
    [k \in 1..Len(ops) |->
        load_operation(ops[k], SelectSeq(phs, LAMBDA r : r.operation_id = ops[k].id))]

\* date_fin = date_debut + timedelta(days=new_phase_duree)
new_phase_date_fin_app(date_debut, new_phase_duree) == date_debut + new_phase_duree

ajouter_phase_app(operation, new_phase_nom, new_phase_duree, new_phase_couleur, new_phase_description, new_phase_responsable, position, phase_id) ==
    LET date_debut == new_phase_date_debut(operation, position)
        date_fin == new_phase_date_fin_app(date_debut, new_phase_duree)
        shifted == IF position # A_la_fin
                   THEN decaler_phases(operation.phases,
                                       insertion_idx(operation.phases, position),
                                       new_phase_duree)
                   ELSE operation.phases
        new_phase == Phase(phase_id, new_phase_nom, date_debut, date_fin,
                           new_phase_couleur, "En attente", new_phase_description,
                           new_phase_responsable, <<>>)
    IN  [operation EXCEPT !.phases =
            IF position = A_la_fin
            THEN Append(shifted, new_phase)
            ELSE insert(shifted, insertion_idx(operation.phases, position), new_phase)]

\* "for i, frein in enumerate(freins_actuels): if checkbox: freins_actuels.remove(frein)":
\* the list shrinks under the loop, which goes on at the next index
RECURSIVE supprimer_coches(_, _, _)
supprimer_coches(freins, i, cases) ==
    IF i > Len(freins)
    THEN freins
    ELSE IF i \in cases
         THEN supprimer_coches(remove(freins, freins[i]), i + 1, cases)
         ELSE supprimer_coches(freins, i + 1, cases)

freins_actuels_app(freins, cases, nouveau_frein) ==
    LET apres_suppr == supprimer_coches(freins, 1, cases)
    IN  IF nouveau_frein # ""
            /\ \A i \in 1..Len(apres_suppr) : apres_suppr[i] # nouveau_frein
        THEN Append(apres_suppr, nouveau_frein)
        ELSE apres_suppr

AjouterPhaseApp(Noms, Durees) ==
    /\ runs < MaxRuns
    /\ LET operations == load_operations_app(db_operations, db_phases)
       IN  \E k \in 1..Len(operations) :
              LET selected ==
                      operations[selected_operation_index(operations,
                                                          operation_names(operations)[k])]
              IN  /\ Len(selected.phases) < MaxPhases
                  /\ \E new_phase_nom \in Noms, new_phase_duree \in Durees,
                        p \in 1..(Len(selected.phases) + 1) :
                        LET position == positions(selected.phases)[p]
                        IN  IF new_phase_nom # ""
                            THEN /\ Saved("ajouter_phase_app", selected,
                                          ajouter_phase_app(selected, new_phase_nom,
                                              new_phase_duree, couleur_value, <<>>,
                                              selected.aco_responsable, position, next_uuid),
                                          [new_phase_nom |-> new_phase_nom,
                                           new_phase_duree |-> new_phase_duree,
                                           p |-> p, position |-> position])
                                 /\ next_uuid' = next_uuid + 1
                            ELSE UNCHANGED vars

ModifierPhaseApp(Statuts, Dates, Textes) ==
    /\ runs < MaxRuns
    /\ LET operations == load_operations_app(db_operations, db_phases)
       IN  \E k \in 1..Len(operations) :
              LET selected ==
                      operations[selected_operation_index(operations,
                                                          operation_names(operations)[k])]
              IN  /\ selected.phases # <<>>
                  /\ Len(selected.phases) <= MaxPhases
                  /\ \E n \in 1..Len(selected.phases) :
                        LET i == selected_phase_index(selected.phases,
                                                      phase_names(selected.phases)[n])
                            selected_phase == selected.phases[i]
                        IN  \E mod_statut \in {selected_phase.statut} \cup Statuts,
                               mod_date_debut \in {selected_phase.date_debut} \cup Dates,
                               mod_date_fin \in {selected_phase.date_fin} \cup Dates,
                               cases \in SUBSET (1..Len(selected_phase.freins)),
                               nouveau_frein \in Textes :
                               /\ Saved("modifier_phase_app", selected,
                                        modifier_phase(selected, i, mod_statut,
                                            selected_phase.responsable, mod_date_debut,
                                            mod_date_fin, selected_phase.description,
                                            freins_actuels_app(selected_phase.freins, cases,
                                                               nouveau_frein)),
                                        [n |-> n, i |-> i, mod_statut |-> mod_statut,
                                         mod_date_debut |-> mod_date_debut,
                                         mod_date_fin |-> mod_date_fin, cases |-> cases,
                                         nouveau_frein |-> nouveau_frein])
                               /\ UNCHANGED next_uuid

NextApp ==
    \/ CreerOperation
    \/ AjouterPhaseApp({"B"}, {1, 7})
    \/ ModifierPhaseApp({"Retard"}, {FirstDay + 5}, {"", "Recours"})

SpecApp == Init /\ [][NextApp]_vars

(***************************************************************************)
(* The indicator in front of an operation in the two tables that list      *)
(* operations: "Operations Recentes" of dashboard and the detail of an ACO *)
(* in gestion_aco.                                                         *)
(***************************************************************************)
phases_retard(op) ==
    Cardinality({i \in 1..Len(op.phases) : op.phases[i].statut = "Retard"})

phases_freins(op) ==
    Cardinality({i \in 1..Len(op.phases) : op.phases[i].freins # <<>>})

\* dashboard: green or red by the late phases, then orange over either when
\* any phase has a blocker
status_indicator_dashboard(op) ==
    LET status_indicator == IF phases_retard(op) = 0 THEN "vert" ELSE "rouge"
    IN  IF \E i \in 1..Len(op.phases) : op.phases[i].freins # <<>>
        THEN "orange"
        ELSE status_indicator

\* gestion_aco: red when a phase is late, else orange when a phase has a blocker
status_indicator_aco(op) ==
    IF phases_retard(op) > 0
    THEN "rouge"
    ELSE IF phases_freins(op) > 0
         THEN "orange"
         ELSE "vert"

(***************************************************************************)
(* opcopilot_streamlit_complete.py: OPPWorkflow, the workflow of 45 phases *)
(* of the demonstration data (accents transliterated; rem is the value of  *)
(* phase_data.get("rem", False)).                                          *)
(***************************************************************************)
PHASES_OPP ==
    <<
       [ordre |-> 1, nom |-> "Opportunite fonciere identifiee", domaine |-> "OPERATIONNEL", critique |-> TRUE,
        duree_moy |-> 21, rem |-> FALSE],
       [ordre |-> 2, nom |-> "Etude de faisabilite technique", domaine |-> "OPERATIONNEL", critique |-> FALSE,
        duree_moy |-> 30, rem |-> FALSE],
       [ordre |-> 3, nom |-> "Programmation detaillee validee", domaine |-> "OPERATIONNEL", critique |-> TRUE,
        duree_moy |-> 40, rem |-> FALSE],
       [ordre |-> 4, nom |-> "Acquisition/reservation fonciere", domaine |-> "JURIDIQUE", critique |-> TRUE,
        duree_moy |-> 105, rem |-> FALSE],
       [ordre |-> 5, nom |-> "Consultation architecte", domaine |-> "OPERATIONNEL", critique |-> TRUE,
        duree_moy |-> 33, rem |-> FALSE],
       [ordre |-> 6, nom |-> "Esquisse (ESQ)", domaine |-> "OPERATIONNEL", critique |-> FALSE,
        duree_moy |-> 31, rem |-> FALSE],
       [ordre |-> 7, nom |-> "Avant-Projet Sommaire (APS)", domaine |-> "OPERATIONNEL", critique |-> FALSE,
        duree_moy |-> 42, rem |-> FALSE],
       [ordre |-> 8, nom |-> "Avant-Projet Detaille (APD)", domaine |-> "OPERATIONNEL", critique |-> TRUE,
        duree_moy |-> 63, rem |-> FALSE],
       [ordre |-> 9, nom |-> "Projet (PRO)", domaine |-> "OPERATIONNEL", critique |-> TRUE,
        duree_moy |-> 84, rem |-> FALSE],
       [ordre |-> 10, nom |-> "Dossier de Consultation Entreprises (DCE)", domaine |-> "OPERATIONNEL", critique |-> FALSE,
        duree_moy |-> 42, rem |-> FALSE],
       [ordre |-> 11, nom |-> "Constitution dossier Permis de Construire", domaine |-> "ADMINISTRATIF", critique |-> FALSE,
        duree_moy |-> 21, rem |-> FALSE],
       [ordre |-> 12, nom |-> "Depot Permis de Construire", domaine |-> "ADMINISTRATIF", critique |-> FALSE,
        duree_moy |-> 4, rem |-> FALSE],
       [ordre |-> 13, nom |-> "Instruction Permis de Construire", domaine |-> "ADMINISTRATIF", critique |-> TRUE,
        duree_moy |-> 135, rem |-> FALSE],
       [ordre |-> 14, nom |-> "Purge delai de recours", domaine |-> "ADMINISTRATIF", critique |-> TRUE,
        duree_moy |-> 75, rem |-> FALSE],
       [ordre |-> 15, nom |-> "Constitution Ligne Budget Utilisateur (LBU)", domaine |-> "BUDGETAIRE", critique |-> FALSE,
        duree_moy |-> 45, rem |-> FALSE],
       [ordre |-> 16, nom |-> "Vote LBU en Conseil d'Administration", domaine |-> "BUDGETAIRE", critique |-> TRUE,
        duree_moy |-> 18, rem |-> FALSE],
       [ordre |-> 17, nom |-> "Dossier financement Caisse des Depots", domaine |-> "BUDGETAIRE", critique |-> FALSE,
        duree_moy |-> 67, rem |-> FALSE],
       [ordre |-> 18, nom |-> "Signature contrat de pret CDC", domaine |-> "BUDGETAIRE", critique |-> FALSE,
        duree_moy |-> 29, rem |-> FALSE],
       [ordre |-> 19, nom |-> "Recherche cofinancements", domaine |-> "BUDGETAIRE", critique |-> FALSE,
        duree_moy |-> 75, rem |-> FALSE],
       [ordre |-> 20, nom |-> "Constitution garanties et suretes", domaine |-> "BUDGETAIRE", critique |-> FALSE,
        duree_moy |-> 40, rem |-> FALSE],
       [ordre |-> 21, nom |-> "Lancement consultation travaux", domaine |-> "OPERATIONNEL", critique |-> FALSE,
        duree_moy |-> 6, rem |-> FALSE],
       [ordre |-> 22, nom |-> "Periode de consultation", domaine |-> "OPERATIONNEL", critique |-> FALSE,
        duree_moy |-> 41, rem |-> FALSE],
       [ordre |-> 23, nom |-> "Ouverture et analyse des offres", domaine |-> "OPERATIONNEL", critique |-> TRUE,
        duree_moy |-> 24, rem |-> FALSE],
       [ordre |-> 24, nom |-> "Negociation (si procedure le permet)", domaine |-> "OPERATIONNEL", critique |-> FALSE,
        duree_moy |-> 14, rem |-> FALSE],
       [ordre |-> 25, nom |-> "Commission d'Appel d'Offres (CAO)", domaine |-> "JURIDIQUE", critique |-> TRUE,
        duree_moy |-> 7, rem |-> FALSE],
       [ordre |-> 26, nom |-> "Notification marche au(x) attributaire(s)", domaine |-> "JURIDIQUE", critique |-> FALSE,
        duree_moy |-> 6, rem |-> FALSE],
       [ordre |-> 27, nom |-> "Constitution dossier marche", domaine |-> "JURIDIQUE", critique |-> FALSE,
        duree_moy |-> 28, rem |-> FALSE],
       [ordre |-> 28, nom |-> "Signature marche de travaux", domaine |-> "JURIDIQUE", critique |-> TRUE,
        duree_moy |-> 14, rem |-> FALSE],
       [ordre |-> 29, nom |-> "Ordre de Service de demarrage", domaine |-> "OPERATIONNEL", critique |-> FALSE,
        duree_moy |-> 18, rem |-> FALSE],
       [ordre |-> 30, nom |-> "Date d'Ouverture de Chantier (DOC)", domaine |-> "OPERATIONNEL", critique |-> TRUE,
        duree_moy |-> 4, rem |-> TRUE],
       [ordre |-> 31, nom |-> "Travaux de fondations", domaine |-> "OPERATIONNEL", critique |-> FALSE,
        duree_moy |-> 60, rem |-> TRUE],
       [ordre |-> 32, nom |-> "Elevation - Hors d'eau", domaine |-> "OPERATIONNEL", critique |-> TRUE,
        duree_moy |-> 105, rem |-> TRUE],
       [ordre |-> 33, nom |-> "Second oeuvre - Hors d'air", domaine |-> "OPERATIONNEL", critique |-> FALSE,
        duree_moy |-> 135, rem |-> TRUE],
       [ordre |-> 34, nom |-> "Finitions et equipements", domaine |-> "OPERATIONNEL", critique |-> FALSE,
        duree_moy |-> 90, rem |-> TRUE],
       [ordre |-> 35, nom |-> "Reunions de chantier (tout au long)", domaine |-> "OPERATIONNEL", critique |-> FALSE,
        duree_moy |-> 10, rem |-> FALSE],
       [ordre |-> 36, nom |-> "Date d'Achevement des Travaux (DACT)", domaine |-> "OPERATIONNEL", critique |-> TRUE,
        duree_moy |-> 2, rem |-> TRUE],
       [ordre |-> 37, nom |-> "Operations Prealables a la Reception (OPR)", domaine |-> "OPERATIONNEL", critique |-> FALSE,
        duree_moy |-> 14, rem |-> FALSE],
       [ordre |-> 38, nom |-> "Pre-reception SPIC", domaine |-> "OPERATIONNEL", critique |-> FALSE,
        duree_moy |-> 10, rem |-> FALSE],
       [ordre |-> 39, nom |-> "Reception definitive", domaine |-> "OPERATIONNEL", critique |-> TRUE,
        duree_moy |-> 4, rem |-> TRUE],
       [ordre |-> 40, nom |-> "Remise Dossier des Ouvrages Executes (DOE)", domaine |-> "OPERATIONNEL", critique |-> FALSE,
        duree_moy |-> 45, rem |-> FALSE],
       [ordre |-> 41, nom |-> "Remise DIUO", domaine |-> "OPERATIONNEL", critique |-> FALSE,
        duree_moy |-> 33, rem |-> FALSE],
       [ordre |-> 42, nom |-> "Livraison aux locataires", domaine |-> "OPERATIONNEL", critique |-> TRUE,
        duree_moy |-> 29, rem |-> TRUE],
       [ordre |-> 43, nom |-> "Mise en gestion locative", domaine |-> "OPERATIONNEL", critique |-> FALSE,
        duree_moy |-> 18, rem |-> FALSE],
       [ordre |-> 44, nom |-> "Bilan de commercialisation", domaine |-> "OPERATIONNEL", critique |-> FALSE,
        duree_moy |-> 22, rem |-> FALSE],
       [ordre |-> 45, nom |-> "Cloture administrative", domaine |-> "ADMINISTRATIF", critique |-> TRUE,
        duree_moy |-> 60, rem |-> TRUE]
    >>

\* int(len(cls.PHASES_OPP) * avancement_pct / 100): the product is exact and
\* int() truncates the quotient
nb_phases_validees(avancement_pct) == (Len(PHASES_OPP) * avancement_pct) \div 100

\* the status of the phase at index i (from 0) of the loop
statut_demo(operation_id, avancement_pct, i) ==
    LET statut0 == IF i < nb_phases_validees(avancement_pct) THEN "VALIDE" ELSE "EN_ATTENTE"
        statut1 == IF i = nb_phases_validees(avancement_pct) /\ avancement_pct < 100
                   THEN "EN_COURS"
                   ELSE statut0
    IN  IF operation_id = 8045 /\ PHASES_OPP[i + 1].ordre = 15
        THEN "FREIN"
        ELSE statut1

generer_phases_demo(operation_id, avancement_pct) ==
    [k \in 1..Len(PHASES_OPP) |->
        LET i == k - 1
            phase_data == PHASES_OPP[k]
            statut == statut_demo(operation_id, avancement_pct, i)
        IN  [id |-> operation_id * 1000 + phase_data.ordre,
             operation_id |-> operation_id,
             ordre |-> phase_data.ordre,
             nom |-> phase_data.nom,
             description |-> <<"Phase ", phase_data.ordre, " du workflow OPP">>,
             domaine |-> phase_data.domaine,
             statut |-> statut,
             est_validee |-> (statut = "VALIDE"),
             est_critique |-> phase_data.critique,
             date_debut_prevue |-> isoformat(now + i * 7),
             date_fin_prevue |-> isoformat(now + i * 7 + phase_data.duree_moy),
             responsable_principal |-> IF i % 3 = 0 THEN "ACO" ELSE "MOE",
             duree_mini_jours |-> phase_data.duree_moy \div 2,
             duree_maxi_jours |-> phase_data.duree_moy * 2,
             impact_rem |-> phase_data.rem]]

\* the identifiers of the OPP operations of the demonstration data
OperationsDemo == {8021, 8044, 8045}

GenererPhasesDemo ==
    \E operation_id \in OperationsDemo, avancement_pct \in 0..MaxAvancement :
       /\ last' = [kind |-> "generer_phases_demo", saved |-> FALSE,
                   operation_id |-> operation_id, avancement_pct |-> avancement_pct,
                   phases |-> generer_phases_demo(operation_id, avancement_pct)]
       /\ UNCHANGED <<db_operations, db_phases, next_uuid, runs, sessions>>

NextDemo == GenererPhasesDemo

SpecDemo == Init /\ [][NextDemo]_vars

(***************************************************************************)
(* Properties.                                                             *)
(***************************************************************************)
Contiguous(phases) ==
    \A i \in 1..(Len(phases) - 1) : phases[i + 1].date_debut = phases[i].date_fin + 1

Created == last.kind = "nouvelle_operation" /\ last.saved

\* the operations a page sees when it loads the store
Loaded == load_operations(db_operations, db_phases)

\* C1: every operation produced by the creation form, from a template or from
\* custom phases and for any start date, has each phase start the day after the
\* end of the phase before it - in the object built and in what the store returns.
C1_CreationContiguous ==
    /\ Created => Contiguous(last.operation.phases)
    /\ \A operations \in Loaded :
          \A k \in 1..Len(operations) : Contiguous(operations[k].phases)

C1_Witness ==
    /\ Created
    /\ ~last.form.personnaliser
    /\ last.form.type_operation = "OPP"
    /\ Len(last.operation.phases) = 48
    /\ \E operations \in Loaded : Len(operations[1].phases) = 48

ScenarioA ==
    <<[nom |-> "P1", duree_jours |-> 10, couleur |-> couleur_value],
      [nom |-> "P2", duree_jours |-> 5, couleur |-> couleur_value],
      [nom |-> "P3", duree_jours |-> 20, couleur |-> couleur_value]>>

Periods(phases) ==
    [i \in 1..Len(phases) |-> <<isoformat(phases[i].date_debut), isoformat(phases[i].date_fin)>>]

ScenarioAPeriods ==
    Periods(creer_phases(ScenarioA, fromisoformat(<<2025, 1, 1>>), 1, aco_names[1]))
       = << <<(<<2025, 1, 1>>), (<<2025, 1, 10>>)>>,
            <<(<<2025, 1, 11>>), (<<2025, 1, 15>>)>>,
            <<(<<2025, 1, 16>>), (<<2025, 2, 4>>)>> >>

\* C2 (as claimed): a phase made from a nominal duration of d days spans exactly
\* d days, end - start + 1 = d, both for created and for added phases; custom
\* phases of 10, 5 and 20 days from 2025-01-01 give 01-01..01-10, 01-11..01-15,
\* 01-16..02-04.
C2_SpanIsDuration ==
    /\ Created =>
          LET template == phases_template(last.form.type_operation,
                                          last.form.personnaliser,
                                          last.form.phases_personnalisees)
          IN  /\ \A i \in 1..Len(template) :
                    last.operation.phases[i].date_fin
                       - last.operation.phases[i].date_debut + 1
                       = template[i].duree_jours
              /\ ScenarioAPeriods
    /\ last.kind = "ajouter_phase" =>
          \E i \in 1..Len(last.operation.phases) :
             /\ last.operation.phases[i].id \notin
                   {last.selected.phases[j].id : j \in 1..Len(last.selected.phases)}
             /\ last.operation.phases[i].date_fin - last.operation.phases[i].date_debut + 1
                   = last.form.new_phase_duree

Chronological(phases) ==
    \A i \in 1..(Len(phases) - 1) : phases[i].date_debut <= phases[i + 1].date_debut

PhaseIds(phases) == {phases[i].id : i \in 1..Len(phases)}

\* the phases the store returns for the operation the last handler saved
StoredPhases ==
    UNION {{operations[k].phases : k \in 1..Len(operations)} : operations \in Loaded}

LastStored ==
    \A operations \in Loaded :
       \A k \in 1..Len(operations) :
          operations[k].id = last.operation.id =>
             operations[k].phases = last.operation.phases

\* Scenario B: a 7 day phase inserted before the second phase of
\* 01-01..01-10, 01-11..01-15, 01-16..02-04
ScenarioBOperation ==
    Operation(1, "Residence", "AMO", aco_names[1], now, fromisoformat(<<2025, 1, 1>>),
              fromisoformat(<<2026, 1, 1>>), budget_value, "Creee",
              <<Phase(2, "P1", fromisoformat(<<2025, 1, 1>>), fromisoformat(<<2025, 1, 10>>),
                      couleur_value, "En attente", <<>>, aco_names[1], <<>>),
                Phase(3, "P2", fromisoformat(<<2025, 1, 11>>), fromisoformat(<<2025, 1, 15>>),
                      couleur_value, "En attente", <<>>, aco_names[1], <<>>),
                Phase(4, "P3", fromisoformat(<<2025, 1, 16>>), fromisoformat(<<2025, 2, 4>>),
                      couleur_value, "En attente", <<>>, aco_names[1], <<>>)>>)

ScenarioBPeriods ==
    Periods(ajouter_phase(ScenarioBOperation, "N", 7, couleur_value, <<>>, aco_names[1],
                          <<"Avant", "P2">>, 5).phases)
       = << <<(<<2025, 1, 1>>), (<<2025, 1, 10>>)>>,
            <<(<<2025, 1, 11>>), (<<2025, 1, 17>>)>>,
            <<(<<2025, 1, 18>>), (<<2025, 1, 22>>)>>,
            <<(<<2025, 1, 23>>), (<<2025, 2, 11>>)>> >>

\* C3: as long as no form edits a phase date, after any sequence of creations,
\* phase additions (at the end or before a phase), status changes and blocker
\* additions and removals, every phase list is in order of start date and each
\* phase starts the day after the one before it ends; Scenario B gives
\* 01-01..01-10, 01-11..01-17, 01-18..01-22, 01-23..02-11.
C3_SequenceContiguous ==
    /\ last.saved =>
          /\ Contiguous(last.operation.phases)
          /\ Chronological(last.operation.phases)
    /\ \A phases \in StoredPhases : Contiguous(phases) /\ Chronological(phases)
    /\ last.kind = "ajouter_phase" => ScenarioBPeriods

C3_Witness ==
    /\ last.kind = "ajouter_phase"
    /\ last.form.position # A_la_fin
    /\ Len(last.selected.phases) = 2
    /\ insertion_idx(last.selected.phases, last.form.position) = 2
    /\ last.form.new_phase_duree = 7
    /\ \E phases \in StoredPhases : Len(phases) = 3

\* the first phase bearing the name chosen in "Inserer"
Target(phases, position) ==
    CHOOSE t \in 1..Len(phases) :
       /\ phases[t].nom = position[2]
       /\ \A u \in 1..(t - 1) : phases[u].nom # position[2]

\* C4: inserting a phase of d days before a target phase gives the new phase the
\* start the target had, moves the start and the end of the target and of every
\* phase after it d days later, leaves the phases before the target as they
\* were, keeps the order of the existing phases and puts the new phase right
\* before the target.
C4_InsertBefore ==
    (last.kind = "ajouter_phase" /\ last.form.position # A_la_fin) =>
       LET before == last.selected.phases
           after == last.operation.phases
           d == last.form.new_phase_duree
           t == Target(before, last.form.position)
       IN  /\ Len(after) = Len(before) + 1
           /\ after[t].id \notin PhaseIds(before)
           /\ after[t].nom = last.form.new_phase_nom
           /\ after[t].date_debut = before[t].date_debut
           /\ \A i \in t..Len(before) :
                 after[i + 1] = [before[i] EXCEPT !.date_debut = @ + d, !.date_fin = @ + d]
           /\ \A i \in 1..(t - 1) : after[i] = before[i]
           /\ LastStored

C4_Witness ==
    /\ last.kind = "ajouter_phase"
    /\ last.form.position # A_la_fin
    /\ Len(last.selected.phases) = 2
    /\ Target(last.selected.phases, last.form.position) = 2
    /\ last.operation.phases[3].date_debut
          = last.selected.phases[2].date_debut + last.form.new_phase_duree
    /\ last.form.new_phase_duree = 30

\* C5: appending a phase starts it the day after the end of the last phase, or
\* on the start date of the operation when the operation has no phase; the new
\* phase is the last one and no other phase changes.
C5_Append ==
    (last.kind = "ajouter_phase" /\ last.form.position = A_la_fin) =>
       LET before == last.selected.phases
           after == last.operation.phases
           new == after[Len(after)]
       IN  /\ Len(after) = Len(before) + 1
           /\ new.id \notin PhaseIds(before)
           /\ new.nom = last.form.new_phase_nom
           /\ before # <<>> => new.date_debut = before[Len(before)].date_fin + 1
           /\ before = <<>> => new.date_debut = last.selected.date_debut
           /\ \A i \in 1..Len(before) : after[i] = before[i]
           /\ LastStored

C5_Witness ==
    /\ last.kind = "ajouter_phase"
    /\ last.form.position = A_la_fin
    /\ Len(last.selected.phases) = 2
    /\ \E phases \in StoredPhases :
          /\ Len(phases) = 3
          /\ phases[3].id \notin PhaseIds(last.selected.phases)
          /\ phases[3].date_debut = last.selected.phases[2].date_fin + 1

\* the same on an operation that has no phase yet
C5_WitnessEmpty ==
    /\ last.kind = "ajouter_phase"
    /\ last.selected.phases = <<>>
    /\ \E phases \in StoredPhases :
          Len(phases) = 1 /\ phases[1].date_debut = ExistingOperation.date_debut

\* C6 (as claimed): every stored phase ends on or after the day it starts, also
\* after a phase was modified.
C6_EndNotBeforeStart ==
    \A phases \in StoredPhases :
       \A i \in 1..Len(phases) : phases[i].date_fin >= phases[i].date_debut

\* C7: the progress of an operation lies between 0 and 100 per cent, is 0 when
\* the operation has no phase, is 0 for an operation that was just created, and
\* is 100 per cent only when every phase is "Termine".
C7_ProgressRange ==
    /\ \A operations \in Loaded :
          \A k \in 1..Len(operations) :
             LET operation == operations[k]
                 pct == progress_pct(operation)
             IN  /\ pct.den > 0
                 /\ 0 <= pct.num
                 /\ pct.num <= 100 * pct.den
                 /\ operation.phases = <<>> => pct.num = 0
                 /\ pct.num = 100 * pct.den =>
                       /\ operation.phases # <<>>
                       /\ \A i \in 1..Len(operation.phases) :
                             operation.phases[i].statut = "Termine"
    /\ Created => progress_pct(last.operation).num = 0

C7_Witness ==
    /\ last.kind = "action_rapide"
    /\ last.form.statut = "Termine"
    /\ Len(last.operation.phases) = 2
    /\ progress_pct(last.selected).num * 2 = 100 * progress_pct(last.selected).den
    /\ \E operations \in Loaded :
          \E k \in 1..Len(operations) :
             /\ operations[k].id = last.operation.id
             /\ progress_pct(operations[k]).num = 100 * progress_pct(operations[k]).den

\* Scenario D: two finished phases, a late phase that has one blocker, a pending
\* phase
ScenarioDOperation ==
    [ScenarioBOperation EXCEPT !.phases =
        <<[ScenarioBOperation.phases[1] EXCEPT !.statut = "Termine"],
          [ScenarioBOperation.phases[2] EXCEPT !.statut = "Termine"],
          [ScenarioBOperation.phases[3] EXCEPT !.statut = "Retard",
                                               !.freins = <<"Attente validation">>],
          Phase(5, "P4", fromisoformat(<<2025, 2, 5>>), fromisoformat(<<2025, 2, 10>>),
                couleur_value, "En attente", <<>>, aco_names[1], <<>>)>>]

ScenarioDFigures ==
    /\ progress_pct(ScenarioDOperation).num * 2 = 100 * progress_pct(ScenarioDOperation).den
    /\ phases_en_retard(<<ScenarioDOperation>>) = 1
    /\ freins_critiques(<<ScenarioDOperation>>) = 1
    /\ alertes_critiques(<<ScenarioDOperation>>) = 2

\* the phases of a list of operations, as <<operation, phase>> positions
PhasePositions(operations) ==
    UNION {{<<k, i>> : i \in 1..Len(operations[k].phases)} : k \in 1..Len(operations)}

\* C8: the alert count is the number of late phases plus the number of phases
\* that have at least one blocker, whatever the number of blockers; a phase that
\* is late and blocked counts twice.  Scenario D gives progress 0.5, one late
\* phase, one blocked phase and an alert count of 2.
C8_AlertCount ==
    /\ \A operations \in Loaded :
          LET late == {p \in PhasePositions(operations) :
                          operations[p[1]].phases[p[2]].statut = "Retard"}
              blocked == {p \in PhasePositions(operations) :
                             operations[p[1]].phases[p[2]].freins # <<>>}
          IN  /\ alertes_critiques(operations) = Cardinality(late) + Cardinality(blocked)
              /\ alertes_critiques(operations)
                    = Cardinality(late \cup blocked) + Cardinality(late \cap blocked)
    /\ last.saved => ScenarioDFigures

C8_Witness ==
    /\ last.kind = "modifier_phase"
    /\ \E operations \in Loaded :
          /\ alertes_critiques(operations) = 2
          /\ \E p \in PhasePositions(operations) :
                /\ operations[p[1]].phases[p[2]].statut = "Retard"
                /\ Len(operations[p[1]].phases[p[2]].freins) = 2
          /\ \A p \in PhasePositions(operations) :
                operations[p[1]].phases[p[2]].statut = "Retard"
                   <=> operations[p[1]].phases[p[2]].freins # <<>>

\* C9 (as claimed): the creation form refuses an operation whose name, type or
\* responsible is missing or whose end date is not after its start date, and a
\* refused submission leaves the store as it was.
C9_CreationValidated ==
    last.kind = "nouvelle_operation" =>
       /\ ~last.saved => db_operations = last.operations0 /\ db_phases = last.phases0
       /\ last.saved =>
             /\ last.form.nom # ""
             /\ last.form.type_operation # ""
             /\ last.form.aco_responsable # ""
             /\ last.form.date_fin > last.form.date_debut

\* C10 (as claimed): a creation that asks for custom phases and supplies none
\* is refused and creates no operation.
C10_EmptyCustomRefused ==
    (last.kind = "nouvelle_operation" /\ last.saved) =>
       ~(last.form.personnaliser /\ last.form.phases_personnalisees = <<>>)

\* C11 (as claimed): convert_to_days fails when the value is zero or negative
\* and when the unit is not jours, semaines or mois, and never returns a number
\* of days that is zero or negative.
C11_ConvertValidated ==
    last.kind = "convert_to_days" =>
       /\ last.valeur <= 0 => last.result.raised # ""
       /\ last.unite \notin {"jours", "semaines", "mois"} => last.result.raised # ""
       /\ last.result.raised = "" => last.result.value > 0

\* C12: for every number of days from 0 up, format_duration gives days / 30
\* months for a positive multiple of 30, otherwise days / 7 weeks for a positive
\* multiple of 7, otherwise the days themselves; 0 is 0 days, and the 21 days of
\* 3 weeks read 3 weeks.
C12_FormatDuration ==
    /\ last.kind = "format_duration" =>
          LET jours == last.jours
          IN  /\ (jours > 0 /\ jours % 30 = 0) => last.result = <<jours \div 30, "mois">>
              /\ (jours > 0 /\ jours % 30 # 0 /\ jours % 7 = 0)
                    => last.result = <<jours \div 7, "semaines">>
              /\ (jours = 0 \/ (jours % 30 # 0 /\ jours % 7 # 0))
                    => last.result = <<jours, "jours">>
    /\ last.kind = "format_duration" =>
          /\ convert_to_days(3, "semaines") = 21
          /\ format_duration(convert_to_days(3, "semaines")) = <<3, "semaines">>

C12_Witness ==
    /\ last.kind = "format_duration"
    /\ last.jours = 210
    /\ last.result = <<7, "mois">>

\* C13 (as claimed): a number n of weeks or months from 1 up, converted to days
\* and formatted, reads n in the unit it was entered in.
C13_RoundTrip ==
    (/\ last.kind = "convert_to_days"
     /\ last.valeur >= 1
     /\ last.unite \in {"semaines", "mois"}) =>
       format_duration(last.result.value) = <<last.valeur, last.unite>>

\* the operations the store returns, whatever the order of the rows
StoredOperations ==
    UNION {{operations[k] : k \in 1..Len(operations)} : operations \in Loaded}

\* C14 (as claimed): the bar of every phase, created with its operation or
\* added later, is as long as the inclusive number of days of the phase,
\* (end - start) + 1.
C14_BarSpanInclusive ==
    \A operation \in StoredOperations :
       \A i \in 1..Len(operation.phases) :
          create_timeline_gantt(operation).bars[i].x
             = (operation.phases[i].date_fin - operation.phases[i].date_debut) + 1

\* C15: the colour of a bar is green for "Termine", blue for "En cours", red
\* for "Retard" and the phase's own colour otherwise, whatever the blockers of
\* the phase; the warning sign is on the bar exactly when the phase has a
\* blocker, whatever its status.
C15_ColorAndMarker ==
    \A operation \in StoredOperations :
       \A i \in 1..Len(operation.phases) :
          LET phase == operation.phases[i]
              b == create_timeline_gantt(operation).bars[i]
          IN  /\ phase.statut = "Termine" => b.color = "#28a745"
              /\ phase.statut = "En cours" => b.color = "#007bff"
              /\ phase.statut = "Retard" => b.color = "#dc3545"
              /\ phase.statut = "En attente" => b.color = phase.couleur
              /\ b.color = create_timeline_gantt(
                               [operation EXCEPT !.phases[i].freins = <<>>]).bars[i].color
              /\ (b.y[2] # "") <=> (phase.freins # <<>>)
              /\ \A statut \in {STATUTS[j] : j \in 1..Len(STATUTS)} :
                    b.y = create_timeline_gantt(
                              [operation EXCEPT !.phases[i].statut = statut]).bars[i].y

C15_Witness ==
    \E operation \in StoredOperations :
       \E i \in 1..Len(operation.phases) :
          /\ operation.phases[i].statut = "En cours"
          /\ operation.phases[i].freins # <<>>
          /\ create_timeline_gantt(operation).bars[i].color = "#007bff"
          /\ create_timeline_gantt(operation).bars[i].y[2] # ""

C17_LoadSeesWholeLists ==
    \A s \in Sessions :
       \A k \in 1..Len(Run(s).operations) :
          /\ <<Run(s).operations[k].id, Run(s).operations[k].phases>> \in last.versions
          /\ Run(s).operations[k].phases # <<>>

C17_Witness ==
    \E s \in Sessions :
       /\ Run(s).pc = "loaded"
       /\ Run(s).concurrent
       /\ \E t \in Sessions \ {s} :
             /\ Run(t).pc = "insert"
             /\ Len(Run(t).todo) < Len(Run(t).pending.phases)

\* C18: when two sessions have loaded the same operation and each saves its
\* own edit, the store holds, after each commit, exactly the copy of the
\* session that committed: what the other session saved in between is gone,
\* and no save fails.
C18_LastWriteWins ==
    last.kind = "commit" =>
       /\ db_operations = save_operation(last.operations0, last.phases0,
                                         last.operation).operations
       /\ db_phases = save_operation(last.operations0, last.phases0,
                                     last.operation).phases
       /\ \A operation \in StoredOperations :
             operation.id = last.operation.id => operation = last.operation

C18_Witness ==
    /\ last.kind = "commit"
    /\ \E k \in 1..Len(last.loaded) :
          /\ last.loaded[k].id = last.operation.id
          /\ \E r \in 1..Len(last.phases0) :
                /\ last.phases0[r].operation_id = last.operation.id
                /\ last.phases0[r].id \notin PhaseIds(last.loaded[k].phases)
                /\ \A operation \in StoredOperations :
                      last.phases0[r].id \notin PhaseIds(operation.phases)
    /\ \E i \in 1..Len(last.operation.phases) : last.operation.phases[i].statut = "En cours"

\* C19: no handler of a session deletes a phase: whatever was saved - a
\* creation, an added phase, a status change, a modified phase, blockers added
\* or lifted, a postponement, an action on all alerts - every phase row the
\* store held before is still there for the same operation, with its
\* identifier and its name.
C19_PhasesNeverDeleted ==
    last.saved =>
       \A r \in 1..Len(last.phases0) :
          \E q \in 1..Len(db_phases) :
             /\ db_phases[q].id = last.phases0[r].id
             /\ db_phases[q].operation_id = last.phases0[r].operation_id
             /\ db_phases[q].nom = last.phases0[r].nom

C19_Witness ==
    /\ last.kind = "ajouter_phase"
    /\ last.form.position # A_la_fin
    /\ Len(last.phases0) >= 2
    /\ Len(db_phases) = Len(last.phases0) + 1
    /\ {db_phases[q].id : q \in 1..Len(db_phases)}
          = {last.phases0[r].id : r \in 1..Len(last.phases0)}
               \cup {last.operation.phases[insertion_idx(last.selected.phases,
                                                          last.form.position)].id}

\* the phases of the saved operation as the store returns them
LastStoredPhases ==
    {operation.phases : operation \in {o \in StoredOperations : o.id = last.operation.id}}

\* C20: the buttons that set a status (Terminer, Demarrer, Retard, Resolu)
\* change the status of their phase and nothing else - not its blockers, not its
\* dates, no other phase; lifting or adding blockers changes the blocker list of
\* the phase and nothing else, so a phase can be "En cours" and have blockers.
C20_StatusAndBlockersApart ==
    /\ last.kind \in {"action_rapide", "resoudre_retard"} =>
          LET before == last.selected.phases
              after == last.operation.phases
          IN  /\ after = [before EXCEPT ![last.form.i].statut = after[last.form.i].statut]
              /\ last.kind = "action_rapide" => after[last.form.i].statut = last.form.statut
              /\ last.kind = "resoudre_retard" =>
                    /\ before[last.form.i].statut = "Retard"
                    /\ after[last.form.i].statut = "En cours"
              /\ \A phases \in LastStoredPhases :
                    {phases[j] : j \in 1..Len(phases)} = {after[j] : j \in 1..Len(after)}
    /\ last.kind \in {"lever_freins", "ajouter_frein"} =>
          LET before == last.selected.phases
              after == last.operation.phases
          IN  /\ after = [before EXCEPT ![last.form.i].freins = after[last.form.i].freins]
              /\ last.kind = "lever_freins" => after[last.form.i].freins = <<>>
              /\ last.kind = "ajouter_frein" =>
                    after[last.form.i].freins
                       = Append(before[last.form.i].freins, last.form.input)
              /\ \A phases \in LastStoredPhases :
                    {phases[j] : j \in 1..Len(phases)} = {after[j] : j \in 1..Len(after)}

C20_Witness ==
    /\ last.kind = "resoudre_retard"
    /\ last.selected.phases[last.form.i].freins # <<>>
    /\ \E phases \in LastStoredPhases :
          \E j \in 1..Len(phases) :
             /\ phases[j].statut = "En cours"
             /\ phases[j].freins = last.selected.phases[last.form.i].freins

\* the operations a page of opcopilot_app.py sees when it loads the store
LoadedApp == load_operations_app(db_operations, db_phases)

\* C21 (as claimed): in opcopilot_app.py, inserting a phase before a target in
\* a contiguous list keeps the list contiguous from the insertion point on: the
\* inserted phase ends exactly one day before the shifted target starts, each
\* later phase starts the day after the one before it ends, and the phases
\* before the insertion point are untouched.
C21_InsertKeepsContiguousApp ==
    (/\ last.kind = "ajouter_phase_app"
     /\ last.form.position # A_la_fin
     /\ Contiguous(last.selected.phases)) =>
       LET idx == insertion_idx(last.selected.phases, last.form.position)
           after == last.operation.phases
       IN  /\ after[idx].date_fin + 1 = after[idx + 1].date_debut
           /\ \A j \in idx..(Len(after) - 1) :
                 after[j + 1].date_debut = after[j].date_fin + 1
           /\ \A j \in 1..(idx - 1) : after[j] = last.selected.phases[j]

\* C22 (as claimed): load_operations returns the phases of every operation in
\* non-decreasing order of start date, in the main application and in
\* opcopilot_app.py alike, whatever the order of the list that was saved.
C22_LoadedInDateOrder ==
    \A operations \in Loaded \cup {LoadedApp} :
       \A k \in 1..Len(operations) : Chronological(operations[k].phases)

\* C23 (as claimed): whatever the phase list, duplicate names included, and
\* whichever entry p of the "insert before" selector the user chose, the new
\* phase is placed immediately before the phase of that entry, and exactly that
\* phase and the phases after it are shifted by the duration.
C23_InsertBeforeChosen ==
    (/\ last.kind \in {"ajouter_phase", "ajouter_phase_app"}
     /\ last.form.position # A_la_fin) =>
       LET chosen == last.form.p - 1
           before == last.selected.phases
           after == last.operation.phases
           d == last.form.new_phase_duree
       IN  /\ Len(after) = Len(before) + 1
           /\ after[chosen].id \notin PhaseIds(before)
           /\ \A j \in 1..(chosen - 1) : after[j] = before[j]
           /\ \A j \in chosen..Len(before) :
                 after[j + 1] = [before[j] EXCEPT !.date_debut = @ + d,
                                                  !.date_fin = @ + d]

\* C24 (as claimed): the modify form applies the submitted status and dates to
\* exactly the phase of the entry n the user selected and changes no other
\* phase, also when two phases have the same name and the same status.
C24_ModifyChosenOnly ==
    last.kind \in {"modifier_phase", "modifier_phase_app"} =>
       LET before == last.selected.phases
           after == last.operation.phases
           n == last.form.n
       IN  /\ Len(after) = Len(before)
           /\ after[n].statut = last.form.mod_statut
           /\ after[n].date_debut = last.form.mod_date_debut
           /\ after[n].date_fin = last.form.mod_date_fin
           /\ \A j \in 1..Len(before) : j # n => after[j] = before[j]

\* how many times the text x is in a list of blockers
Occurrences(freins, x) == Cardinality({j \in 1..Len(freins) : freins[j] = x})

\* C25 (as claimed): "Marquer retards comme critiques" is idempotent: once it
\* has run, every late phase carries the blocker "CRITIQUE - Action requise"
\* exactly once, and running it again on what the store returns changes no
\* phase and saves nothing.
C25_MarkCriticalIdempotent ==
    last.kind = "marquer_critiques" =>
       \A operations \in Loaded :
          LET again == marquer_critiques(operations, alertes_retard(operations),
                                         db_operations, db_phases, 0)
          IN  /\ \A a \in 1..Len(alertes_retard(operations)) :
                    Occurrences(alerte_phase(operations, alertes_retard(operations)[a]).freins,
                                "CRITIQUE - Action requise") = 1
              /\ again.count = 0
              /\ again.loaded = operations

\* C26 (as claimed): the indicator of an operation is the same in the table of
\* the dashboard and in the table of the ACO detail, for every combination of
\* late phases and phases with blockers, an operation with both included.
C26_SameIndicator ==
    \A op \in StoredOperations :
       status_indicator_dashboard(op) = status_indicator_aco(op)

\* every phase starts strictly after the end of the phase before it
NonOverlapping(phases) ==
    \A i \in 1..(Len(phases) - 1) : phases[i + 1].date_debut > phases[i].date_fin

\* C27 (as claimed): "Reprogrammer" on one late phase, and "Reprogrammer tous
\* les retards (+7j)" on all of them, move the end date of the phase by exactly
\* seven days and keep the phases of the operation non-overlapping: every phase
\* still starts strictly after the end of the one before it.
C27_RescheduleKeepsOrder ==
    /\ (last.kind = "reprogrammer" /\ NonOverlapping(last.selected.phases)) =>
          /\ last.operation.phases[last.form.i].date_fin
                = last.selected.phases[last.form.i].date_fin + 7
          /\ NonOverlapping(last.operation.phases)
    /\ last.kind = "reprogrammer_tous" =>
          \A k \in 1..Len(last.loaded) :
             NonOverlapping(last.loaded[k].phases) =>
                /\ \A i \in 1..Len(last.loaded[k].phases) :
                      last.result[k].phases[i].date_fin
                         = last.loaded[k].phases[i].date_fin
                              + (IF last.loaded[k].phases[i].statut = "Retard" THEN 7 ELSE 0)
                /\ NonOverlapping(last.result[k].phases)

\* C28: no action on phases changes the status of the operation: what creation
\* stored, "Creee", is what every later save writes back, whatever happens to
\* the phases - started, finished, late, added, modified, postponed, blocked.
C28_OperationStatusKept ==
    /\ \A r \in 1..Len(db_operations) : db_operations[r].statut = "Creee"
    /\ \A op \in StoredOperations : op.statut = "Creee"

C28_Witness ==
    /\ last.kind = "action_rapide"
    /\ last.form.statut = "En cours"
    /\ \E r \in 1..Len(db_operations) :
          /\ db_operations[r].id = last.operation.id
          /\ db_operations[r].statut = "Creee"
    /\ \E r \in 1..Len(db_phases) :
          /\ db_phases[r].operation_id = last.operation.id
          /\ db_phases[r].statut = "En cours"

\* the rows of a table that belong to other operations than id, in table order
OtherOperations(ops, id) == SelectSeq(ops, LAMBDA r : r.id # id)

OtherPhases(phs, id) == SelectSeq(phs, LAMBDA r : r.operation_id # id)

\* C29: saving an operation leaves every other operation as it was: its record
\* and its phase rows, in their order, with their identifiers, dates, statuses
\* and blockers (an action on all alerts leaves the operations it did not save
\* as they were); and no phase row is ever stored twice or for two operations.
C29_SaveLeavesOthers ==
    /\ (last.saved /\ "operation" \in DOMAIN last) =>
          /\ OtherOperations(db_operations, last.operation.id)
                = OtherOperations(last.operations0, last.operation.id)
          /\ OtherPhases(db_phases, last.operation.id)
                = OtherPhases(last.phases0, last.operation.id)
    /\ (last.saved /\ "loaded" \in DOMAIN last) =>
          \A k \in 1..Len(last.loaded) :
             last.result[k] = last.loaded[k] =>
                /\ \E r \in 1..Len(db_operations) :
                      db_operations[r] = operation_row(last.loaded[k])
                /\ SelectSeq(db_phases, LAMBDA r : r.operation_id = last.loaded[k].id)
                      = SelectSeq(last.phases0,
                                  LAMBDA r : r.operation_id = last.loaded[k].id)
    /\ \A q, r \in 1..Len(db_phases) :
          q # r => db_phases[q].id # db_phases[r].id

C29_Witness ==
    /\ last.kind \in {"action_rapide", "ajouter_phase", "modifier_phase"}
    /\ Len(db_operations) >= 2
    /\ OtherPhases(db_phases, last.operation.id) # <<>>
    /\ OtherPhases(db_phases, last.operation.id)
          = OtherPhases(last.phases0, last.operation.id)
    /\ SelectSeq(db_phases, LAMBDA r : r.operation_id = last.operation.id)
          # SelectSeq(last.phases0, LAMBDA r : r.operation_id = last.operation.id)

====
